---- MODULE Spec2Model ----
(***************************************************************************)
(* Model of the race-strategy core: the force model (engine/nodes.py),     *)
(* the stop-to-stop interval simulator (engine/interval_simulator.py) and  *)
(* the optimizer utilities built on it (optimizer/*.py).                   *)
(*                                                                         *)
(* Numbers are fixed-point integers:                                      *)
(*   time  ms      dist  mm      speed  mm/s     acc  mm/s^2               *)
(*   force mN      torque uN.m   km/h in tenths (36 = 3.6 km/h = 1 m/s)    *)
(*   power mW      energy mJ                                               *)
(*   sin/cos of the road gradient in 1/10000                               *)
(* Division is floor division, applied where the code divides.             *)
(***************************************************************************)
EXTENDS Integers, Sequences, FiniteSets, TLC

VARIABLES
    segs,       \* heap of Segment objects: segment id -> fields
    ivs,        \* heap of SSInterval objects: interval id -> fields
    pc,         \* position inside the running call ("idle" when none runs)
    cur,        \* the SSInterval the running simulate_interval works on
    loopSeg,    \* position of the running `for segment in ...` loop
    initial_TimeNode, \* local of simulate_interval / simulate_braking
    brakingNode,      \* local of simulate_interval: index into brakingNodes
    status,     \* how the last finished call ended
    runs,       \* number of simulate_interval calls started so far
    master,     \* the SSInterval returned by the last join_intervals call
    runInput,   \* what the running simulate_interval was called on
    firstRun,   \* input and output of the first simulate_interval that returned
    cand,       \* the speed vector given to the last set_v_eff call
    sss,        \* the running simulate_single_segment call: its locals
    opt,        \* the running optimize_dp / optimize_ga call: its locals
    threads,    \* concurrent simulate_interval_with_v_eff calls: their locals
    bench,      \* the running benchmark_interval call: its locals
    fd,         \* the running StateNode.Fd_calc call on float values: its locals
    vec,        \* a kinematics.Vec and the result of its unit_vector()
    snap        \* an exit speed snapped to the DP state grid both ways

simVars == <<segs, ivs, pc, cur, loopSeg, initial_TimeNode, brakingNode, status,
             runs, master, runInput, firstRun>>

optVars == <<cand, sss, opt, threads, bench, fd, vec, snap>>

vars == <<simVars, optVars>>

-----------------------------------------------------------------------------
(* Bounds of the model *)

MaxSegs == 2        \* segments of the first interval
MaxNodes == 14      \* cap on the length of time_nodes / brakingNodes
MaxRuns == 2        \* cap on the number of simulate_interval calls
MaxCalls == 1       \* cap on the number of optimizer calls (set_v_eff, evaluation)
MaxSteps == 16      \* the max_steps given to simulate_single_segment

-----------------------------------------------------------------------------
(* Program constants *)

P_STALL == 100
MAX_TORQUE == 20000000        \* 20 N.m
BRAKE == 1000000              \* 1000 N
PAD == 20000                  \* the 20 m added to the last segment's tdist

\* utils/constants.py (vehicle profile)
car_mass == 575               \* kg
accel_g == 9810               \* mm/s^2
wheel_radius == 200           \* mm
coef_rr == 45                 \* 1/10000
air_density == 1200           \* g/m^3
coef_drag == 120              \* 1/1000
cross_section == 1            \* m^2
num_motors == 1

\* arguments of simulate_interval
TIME_STEP == 4000             \* ms
VELOCITY_STEP == 1000         \* mm/s

-----------------------------------------------------------------------------
(* Arithmetic helpers *)

Abs(x) == IF x < 0 THEN -x ELSE x
Min(a, b) == IF a <= b THEN a ELSE b
Max(a, b) == IF a >= b THEN a ELSE b
Last(s) == s[Len(s)]

(* kinematics.Speed: constructed from one unit, the others derived *)
SpeedMps(m) == [mps |-> m, kmph |-> (m * 36) \div 1000]
SpeedKmph(k) == [mps |-> (k * 1000) \div 36, kmph |-> k]
(* kinematics.Velocity(unit_vec, speed): Speed.__init__(self, speed.mps) *)
Velocity(speed) == SpeedMps(speed.mps)

-----------------------------------------------------------------------------
(* Force model: StateNode *)

Fm_calc(torque) == torque \div wheel_radius

\* wind is ZERO_VEC on every segment (fetch_route_intervals.create_segment)
Fd_calc(speed) ==
    (((speed * speed) \div 1000)
        * ((air_density * coef_drag * cross_section) \div 2000)) \div 1000

Frr_calc(seg) == ((((car_mass * accel_g) \div 10000) * coef_rr) * seg.cos) \div 10000

Fg_calc(seg) == ((car_mass * accel_g) \div 10000) * seg.sin

Ft_calc(Fm, Fd, Frr, Fg, Fb) == Fm - Fd - Frr - Fg - Fb

(* TimeNode(segment, time, dist, speed, acc, torque, Fb) *)
TimeNode(sid, time, dist, speed, torque, Fb) ==
    [seg |-> sid, time |-> time, dist |-> dist, speed |-> speed,
     acc |-> 0, torque |-> torque, Fb |-> Fb]

(* TimeNode.solve_TimeNode(initial_TimeNode, time_step) *)
solve_TimeNode(node, init, time_step) ==
    LET Ft  == Ft_calc(Fm_calc(node.torque), Fd_calc(init.speed),
                       Frr_calc(segs[node.seg]), Fg_calc(segs[node.seg]), node.Fb)
        acc == Ft \div car_mass
        dv  == (acc * time_step) \div 1000
    IN [node EXCEPT
          !.acc = acc,
          !.speed = init.speed + dv,
          !.dist = init.dist + ((init.speed * time_step) \div 1000)
                             + ((dv * time_step) \div 2000)]

(* MotorModel.speed_from_torque: the fitted line speed = a * torque + b   *)
MOTOR_A == -500               \* mm/s per N.m
MOTOR_B == 30000              \* mm/s
speed_from_torque(torque) == (MOTOR_A * (torque \div 1000)) \div 1000 + MOTOR_B

(* VelocityNode.solve_velocity: <<ok, torque>>, the torque that sustains  *)
(* `speed` on the segment and whether the motor reaches that speed at it  *)
(* (the motor speed is read as the Speed that solve_velocity compares)     *)
solve_velocity(seg, speed) ==
    LET Fm == Fg_calc(seg) + Frr_calc(seg) + Fd_calc(speed)
        torque == Fm * wheel_radius
    IN <<speed_from_torque(torque) >= speed, torque>>

(* the t_eff that set_v_eff stores for a target speed (lines 27-31) *)
t_eff_for(seg, speed) ==
    LET r == solve_velocity(seg, speed) IN IF r[1] THEN r[2] ELSE 0

-----------------------------------------------------------------------------
(* Inputs: the road segments an interval is built from *)

DistChoices == {12000}
\* gradient.sin(), gradient.cos(): flat, an uphill the motor cannot climb,
\* a downhill whose grade force exceeds the braking force
SlopeChoices == {<<0, 10000>>, <<2000, 9798>>, <<-2000, 9798>>}
\* <<speed limit, cruise target>> in tenths of km/h; the second has the
\* cruise target above the limit (a Segment built straight from route data)
SpeedChoices == {<<36, 36>>, <<72, 108>>}

Segment(dist, slope, limit, veff) ==
    LET geo == [dist |-> dist, sin |-> slope[1], cos |-> slope[2]]
    IN [dist |-> dist, sin |-> slope[1], cos |-> slope[2],
        speed_limit |-> SpeedKmph(limit),
        v_eff |-> Velocity(SpeedKmph(veff)),
        t_eff |-> t_eff_for(geo, SpeedKmph(veff).mps),
        tdist |-> 0]

SegChoices ==
    { Segment(d, sl, sp[1], sp[2]) : d \in DistChoices, sl \in SlopeChoices,
                                     sp \in SpeedChoices }

\* the second interval of a route: one flat segment
SegB == Segment(12000, <<0, 10000>>, 72, 108)

\* segment objects: the first interval's, the second interval's, and the
\* deep copies a candidate evaluation works on
SegIds == 1 .. (3 * MaxSegs + 1)
\* the two intervals of the route; TrialId is the deep copy under evaluation,
\* Trial2Id the deep copy of a second, concurrent evaluation
IvIds == {1, 2}
TrialId == 3
Trial2Id == 4
ObjIds == IvIds \cup {TrialId, Trial2Id}

-----------------------------------------------------------------------------
(* SSInterval *)

RECURSIVE CumDist(_, _, _)
CumDist(heap, ids, k) ==
    IF k = 0 THEN 0 ELSE CumDist(heap, ids, k - 1) + heap[ids[k]].dist

(* the tdist loop of SSInterval.__init__ and of __iadd__: written through  *)
(* the segment objects, so every interval sharing them sees the change     *)
SetTdists(heap, ids) ==
    [s \in DOMAIN heap |->
        IF \E k \in 1 .. Len(ids) : ids[k] = s
        THEN [heap[s] EXCEPT !.tdist =
                CumDist(heap, ids, CHOOSE k \in 1 .. Len(ids) : ids[k] = s)]
        ELSE heap[s]]

NoNode == TimeNode(0, 0, 0, 0, 0, 0)

(* SSInterval.__init__: the interval object (startSpeed = stopSpeed = 0) *)
SSInterval(heap, ids) ==
    [segments |-> ids,
     total_dist |-> SetTdists(heap, ids)[Last(ids)].tdist,
     has_time_nodes |-> FALSE, time_nodes |-> <<>>,
     has_brakingNodes |-> FALSE, brakingNodes |-> <<>>]

stopSpeed == 0
startSpeed == 0

(* what simulate_interval reads of the object it is called on *)
Snapshot(heap, iv) ==
    <<iv.total_dist, [k \in 1 .. Len(iv.segments) |-> heap[iv.segments[k]]]>>

(* a node sequence with each node's segment named by its position in the  *)
(* interval instead of by object identity                                  *)
PosOf(iv, sid) == CHOOSE k \in 1 .. Len(iv.segments) : iv.segments[k] = sid
NodeValues(iv, nodes) ==
    [k \in 1 .. Len(nodes) |-> [nodes[k] EXCEPT !.seg = PosOf(iv, @)]]

NoRun == [valid |-> FALSE, input |-> <<>>, time_nodes |-> <<>>,
          brakingNodes |-> <<>>]

NoInterval ==
    [segments |-> <<>>, total_dist |-> 0,
     has_time_nodes |-> FALSE, time_nodes |-> <<>>,
     has_brakingNodes |-> FALSE, brakingNodes |-> <<>>]

(* no optimizer call has been made *)
NoOpt ==
    [pc |-> "idle", method |-> "", v_min |-> 0, v_max |-> 0,
     speed_resolution |-> 0, v_eff_resolution |-> 0,
     speed_grid_mps |-> <<>>, per_seg_actions |-> <<>>,
     transition_tables |-> <<>>, exit_idx_tables |-> <<>>,
     V |-> <<>>, policy |-> <<>>, k |-> 0, s_idx |-> 0,
     optimal_speeds |-> <<>>, n_evals |-> 0,
     bounds |-> <<>>, population |-> <<>>, fit |-> <<>>,
     prev_population |-> <<>>, prev_fit |-> <<>>,
     best_ever |-> <<>>, best_fit |-> 0, gen |-> 0, eval_i |-> 0,
     x |-> <<>>, restart |-> 0, evals |-> <<>>, fresh_time |-> 0,
     result |-> [method |-> "", speeds_kmph |-> <<>>, total_time |-> 0,
                 n_evals |-> 0]]

(* floats: a finite value, an infinity, or not a number *)
Finite(n) == [cls |-> "finite", val |-> n]
PosInf == [cls |-> "inf", val |-> 1]
NaN == [cls |-> "nan", val |-> 0]

(* Fd_calc has not been called *)
NoFd ==
    [pc |-> "idle", speed |-> Finite(0), wind |-> Finite(0),
     velocity |-> [x |-> Finite(0), y |-> Finite(0), mag |-> Finite(0)],
     logged |-> FALSE, Fd |-> Finite(0)]

(* no Vec has been built *)
NoVec ==
    [pc |-> "idle", x |-> Finite(0), y |-> Finite(0), z |-> Finite(0),
     mag |-> Finite(0),
     u |-> [x |-> Finite(0), y |-> Finite(0), z |-> Finite(0), mag |-> Finite(0)]]

NoSnap == [pc |-> "idle", grid |-> <<>>, value |-> 0, replay |-> 0, table |-> 0]

(* benchmark_interval has not been called *)
NoBench == [pc |-> "idle", methods |-> {}, at |-> 1, results |-> <<>>]

(* no concurrent evaluation has been started: thread 1 is the one running  *)
NoThreads ==
    [running |-> 1,
     parked |-> [pc |-> "idle", cur |-> 0, loopSeg |-> 0,
                 initial_TimeNode |-> NoNode, brakingNode |-> 0,
                 status |-> "none", runInput |-> <<>>],
     phase |-> <<"none", "none">>, v |-> <<<<>>, <<>>>>,
     time |-> <<0, 0>>, alone |-> <<-1, -1>>, before |-> <<>>,
     overlapped |-> FALSE]

(* no simulate_single_segment call has been made *)
NoCall ==
    [pc |-> "idle", segment |-> SegB, entry_speed_mps |-> 0, v_eff_kmph |-> 0,
     max_steps |-> 0, target_mps |-> 0, t_eff |-> 0, step |-> 0,
     speed |-> 0, dist |-> 0, elapsed |-> 0, energy |-> 0,
     ret |-> <<0, 0, 0>>]

Init ==
    \E n \in 1 .. MaxSegs :
    \E cfg \in [1 .. n -> SegChoices] :
        LET idsA == [k \in 1 .. n |-> k]
            idB  == n + 1
            raw  == [s \in 1 .. (n + 1) |-> IF s <= n THEN cfg[s] ELSE SegB]
            h1   == SetTdists(raw, idsA)
            h2   == SetTdists(h1, <<idB>>)
        IN /\ segs = h2
           /\ ivs = [i \in ObjIds |->
                       IF i = 1 THEN SSInterval(raw, idsA)
                       ELSE IF i = 2 THEN SSInterval(h1, <<idB>>)
                       ELSE NoInterval]
           /\ pc = "idle"
           /\ cur = 0
           /\ loopSeg = 0
           /\ initial_TimeNode = NoNode
           /\ brakingNode = 0
           /\ status = "none"
           /\ runs = 0
           /\ master = NoInterval
           /\ runInput = <<>>
           /\ firstRun = NoRun
           /\ cand = <<>>
           /\ sss = NoCall
           /\ opt = NoOpt
           /\ threads = NoThreads
           /\ bench = NoBench
           /\ fd = NoFd
           /\ vec = NoVec
           /\ snap = NoSnap

-----------------------------------------------------------------------------
(* SSInterval.simulate_interval, one action per loop iteration *)

(* StartOn with simulate_braking appending to the brakingNodes the object *)
(* already holds instead of starting a new list                            *)
StartOnStale(objs, heap, i) ==
    /\ LET iv == objs[i]
           first == TimeNode(iv.segments[1], 0, 0, startSpeed, 0, 0)
           bfirst == TimeNode(Last(iv.segments), 0, iv.total_dist, stopSpeed, 0, 0)
       IN /\ ivs' = [objs EXCEPT ![i].has_time_nodes = TRUE,
                                 ![i].time_nodes = <<first>>,
                                 ![i].has_brakingNodes = TRUE,
                                 ![i].brakingNodes = Append(@, bfirst)]
          /\ initial_TimeNode' = bfirst
          /\ loopSeg' = Len(iv.segments)
    /\ pc' = "braking"
    /\ cur' = i
    /\ runs' = runs + 1
    /\ status' = "running"
    /\ runInput' = Snapshot(heap, objs[i])

(* simulate_interval lines 62-64 and simulate_braking lines 111-112, on   *)
(* the object i of objs whose segments live in heap                        *)
StartOn(objs, heap, i) ==
    /\ LET iv == objs[i]
           first == TimeNode(iv.segments[1], 0, 0, startSpeed, 0, 0)
           bfirst == TimeNode(Last(iv.segments), 0, iv.total_dist, stopSpeed, 0, 0)
       IN /\ ivs' = [objs EXCEPT ![i].has_time_nodes = TRUE,
                                 ![i].time_nodes = <<first>>,
                                 ![i].has_brakingNodes = TRUE,
                                 ![i].brakingNodes = <<bfirst>>]
          /\ initial_TimeNode' = bfirst
          /\ loopSeg' = Len(iv.segments)
    /\ pc' = "braking"
    /\ cur' = i
    /\ runs' = runs + 1
    /\ status' = "running"
    /\ runInput' = Snapshot(heap, objs[i])

(* a call of simulate_interval on a route interval *)
SimulateStart(i) ==
    /\ pc = "idle"
    /\ runs < MaxRuns
    /\ StartOn(ivs, segs, i)
    /\ UNCHANGED <<segs, brakingNode, master, firstRun, optVars>>

(* AdaptiveStep with the shortened dt taken without abs(): it carries the  *)
(* sign of the acceleration                                                *)
AdaptiveStepSigned(node, init, time_step) ==
    LET n1 == solve_TimeNode(node, init, time_step)
    IN IF Abs(n1.acc * time_step) > VELOCITY_STEP * 1000
       THEN LET actual_dt == (VELOCITY_STEP * 1000) \div n1.acc
                n2 == solve_TimeNode(node, init, actual_dt)
            IN [n2 EXCEPT !.time = init.time + actual_dt]
       ELSE n1

(* AdaptiveStep that shortens the node's time but keeps the speed and     *)
(* dist of the nominal step                                                *)
AdaptiveStepTimeOnly(node, init, time_step) ==
    LET n1 == solve_TimeNode(node, init, time_step)
    IN IF Abs(n1.acc * time_step) > VELOCITY_STEP * 1000
       THEN LET mag == (VELOCITY_STEP * 1000) \div Abs(n1.acc)
                actual_dt == IF time_step < 0 THEN -mag ELSE mag
            IN [n1 EXCEPT !.time = init.time + actual_dt]
       ELSE n1

(* one step of the adaptive-timestep integration shared by both passes:   *)
(* solve with time_step, re-solve with the shortened dt when the speed    *)
(* change would exceed VELOCITY_STEP                                       *)
AdaptiveStep(node, init, time_step) ==
    LET n1 == solve_TimeNode(node, init, time_step)
    IN IF Abs(n1.acc * time_step) > VELOCITY_STEP * 1000
       THEN LET mag == (VELOCITY_STEP * 1000) \div Abs(n1.acc)
                actual_dt == IF time_step < 0 THEN -mag ELSE mag
                n2 == solve_TimeNode(node, init, actual_dt)
            IN [n2 EXCEPT !.time = init.time + actual_dt]
       ELSE n1

(* simulate_braking: one iteration of the while loop (lines 114-130) *)
BrakingStep ==
    /\ pc = "braking"
    /\ loopSeg >= 1
    /\ LET iv == ivs[cur]
           sid == iv.segments[loopSeg]
           segment == segs[sid]
       IN /\ initial_TimeNode.dist >= segment.tdist - segment.dist
          /\ IF initial_TimeNode.speed <= segment.speed_limit.mps
             THEN /\ Len(iv.brakingNodes) < MaxNodes
                  /\ LET fresh == TimeNode(sid, initial_TimeNode.time - TIME_STEP,
                                           0, 0, 0, BRAKE)
                         current_TimeNode ==
                             AdaptiveStep(fresh, initial_TimeNode, -TIME_STEP)
                     IN /\ ivs' = [ivs EXCEPT ![cur].brakingNodes =
                                        Append(@, current_TimeNode)]
                        /\ initial_TimeNode' = current_TimeNode
                  /\ UNCHANGED <<pc, loopSeg>>
             ELSE \* return
                  /\ pc' = "pad"
                  /\ UNCHANGED <<ivs, initial_TimeNode, loopSeg>>
    /\ UNCHANGED <<segs, cur, brakingNode, status, runs, master, runInput, firstRun, optVars>>

(* simulate_braking: the while condition fails, the for loop moves to the *)
(* previous segment, or returns after the first one (line 131)            *)
BrakingNextSegment ==
    /\ pc = "braking"
    /\ \/ /\ loopSeg >= 1
          /\ LET segment == segs[ivs[cur].segments[loopSeg]]
             IN initial_TimeNode.dist < segment.tdist - segment.dist
          /\ loopSeg' = loopSeg - 1
          /\ pc' = IF loopSeg = 1 THEN "pad" ELSE "braking"
    /\ UNCHANGED <<segs, ivs, cur, initial_TimeNode, brakingNode, status, runs, master, runInput, firstRun, optVars>>

(* simulate_interval lines 67-68: brakingNode = 0, pad the last segment *)
PadLastSegment ==
    /\ pc = "pad"
    /\ LET iv == ivs[cur]
       IN /\ segs' = [segs EXCEPT ![Last(iv.segments)].tdist = @ + PAD]
          /\ initial_TimeNode' = iv.time_nodes[1]
    /\ brakingNode' = 1
    /\ loopSeg' = 1
    /\ pc' = "forward"
    /\ UNCHANGED <<ivs, cur, status, runs, master, runInput, firstRun, optVars>>

(* Control with the cruise target tested before the braking envelope *)
ControlTargetFirst(iv, segment, init, bn) ==
    IF init.speed < segment.v_eff.mps THEN <<MAX_TORQUE, 0>>
    ELSE IF init.dist >= iv.brakingNodes[bn].dist THEN <<0, BRAKE>>
    ELSE <<segment.t_eff, 0>>

(* the control law of lines 75-83: <<torque, Fb>> *)
Control(iv, segment, init, bn) ==
    IF init.dist >= iv.brakingNodes[bn].dist THEN <<0, BRAKE>>
    ELSE IF init.speed < segment.v_eff.mps THEN <<MAX_TORQUE, 0>>
    ELSE <<segment.t_eff, 0>>

(* AdvanceBrakingNode that follows the speed both ways: the first braking *)
(* node whose speed is not below the car's, the last node when none is     *)
AdvanceBrakingNodeMatch(bnodes, speed, bn) ==
    IF \E k \in 1 .. Len(bnodes) : bnodes[k].speed >= speed
    THEN CHOOSE k \in 1 .. Len(bnodes) :
            /\ bnodes[k].speed >= speed
            /\ \A j \in 1 .. (k - 1) : bnodes[j].speed < speed
    ELSE Len(bnodes)

(* lines 93-95: index to the braking node with the same velocity *)
RECURSIVE AdvanceBrakingNode(_, _, _)
AdvanceBrakingNode(bnodes, speed, bn) ==
    IF speed > bnodes[bn].speed /\ bn + 1 <= Len(bnodes)
    THEN AdvanceBrakingNode(bnodes, speed, bn + 1)
    ELSE bn

(* simulate_interval: one iteration of the inner while loop (lines 72-103) *)
ForwardStep ==
    /\ pc = "forward"
    /\ loopSeg <= Len(ivs[cur].segments)
    /\ LET iv == ivs[cur]
           sid == iv.segments[loopSeg]
           segment == segs[sid]
           ctl == Control(iv, segment, initial_TimeNode, brakingNode)
           fresh == TimeNode(sid, initial_TimeNode.time + TIME_STEP, 0, 0,
                             ctl[1], ctl[2])
           current_TimeNode == AdaptiveStep(fresh, initial_TimeNode, TIME_STEP)
       IN /\ initial_TimeNode.dist <= segment.tdist
          /\ Len(iv.time_nodes) < MaxNodes
          /\ ivs' = [ivs EXCEPT ![cur].time_nodes = Append(@, current_TimeNode)]
          /\ brakingNode' = AdvanceBrakingNode(iv.brakingNodes,
                                               current_TimeNode.speed, brakingNode)
          /\ initial_TimeNode' = current_TimeNode
          \* line 101-103: break leaves the while loop only
          /\ loopSeg' = IF current_TimeNode.speed <= stopSpeed
                        THEN loopSeg + 1 ELSE loopSeg
    /\ UNCHANGED <<segs, pc, cur, status, runs, master, runInput, firstRun, optVars>>

(* the while condition fails: the for loop takes the next segment *)
ForwardNextSegment ==
    /\ pc = "forward"
    /\ loopSeg <= Len(ivs[cur].segments)
    /\ initial_TimeNode.dist > segs[ivs[cur].segments[loopSeg]].tdist
    /\ loopSeg' = loopSeg + 1
    /\ UNCHANGED <<segs, ivs, pc, cur, initial_TimeNode, brakingNode, status, runs, master, runInput, firstRun, optVars>>

(* lines 105-108: shift the braking nodes' time, return *)
SimulateReturn ==
    /\ pc = "forward"
    /\ loopSeg > Len(ivs[cur].segments)
    /\ ivs' = [ivs EXCEPT ![cur].brakingNodes =
                 [k \in 1 .. Len(@) |->
                    [@[k] EXCEPT !.time = @ + initial_TimeNode.time]]]
    /\ pc' = "idle"
    /\ status' = "returned"
    /\ firstRun' = IF firstRun.valid THEN firstRun
                   ELSE [valid |-> TRUE, input |-> runInput,
                         time_nodes |-> NodeValues(ivs'[cur], ivs'[cur].time_nodes),
                         brakingNodes |-> NodeValues(ivs'[cur], ivs'[cur].brakingNodes)]
    /\ UNCHANGED <<segs, cur, loopSeg, initial_TimeNode, brakingNode, runs, master,
                   runInput, optVars>>

-----------------------------------------------------------------------------
(* SSInterval.__iadd__ and join_intervals *)

(* copy.copy(node) of a TimeNode.  copy._reconstruct builds the new object *)
(* and asks hasattr(y, "__setstate__"); TimeNode.__getattr__ answers -10   *)
(* for every attribute it does not find, so the copy calls -10(state) and  *)
(* raises TypeError before any field is copied.                            *)
CopyRaises(node) == node.seg \in SegIds

ShiftNodes(nodes, time_offset, dist_offset) ==
    [k \in 1 .. Len(nodes) |->
        [nodes[k] EXCEPT !.time = @ + time_offset, !.dist = @ + dist_offset]]

(* self += other: <<raised, self', heap'>> *)
IAdd(self, other, heap) ==
    IF ~(self.has_time_nodes /\ other.has_time_nodes)
    THEN [raised |-> FALSE, self |-> self, heap |-> heap]
    ELSE LET time_offset == Last(self.time_nodes).time
             dist_offset == Last(self.time_nodes).dist
             copied == other.time_nodes
                       \o (IF other.has_brakingNodes THEN other.brakingNodes
                                                     ELSE <<>>)
         IN IF \E k \in 1 .. Len(copied) : CopyRaises(copied[k])
            THEN [raised |-> TRUE, self |-> self, heap |-> heap]
            ELSE LET ids == self.segments \o other.segments
                     h2 == SetTdists(heap, ids)
                 IN [raised |-> FALSE,
                     self |-> [self EXCEPT
                        !.time_nodes = @ \o ShiftNodes(other.time_nodes,
                                                      time_offset, dist_offset),
                        !.has_brakingNodes = @ \/ other.has_brakingNodes,
                        !.brakingNodes =
                            IF other.has_brakingNodes
                            THEN @ \o ShiftNodes(other.brakingNodes,
                                                time_offset, dist_offset)
                            ELSE @,
                        !.segments = ids,
                        !.total_dist = h2[Last(ids)].tdist],
                     heap |-> h2]

RECURSIVE JoinFrom(_, _, _, _)
JoinFrom(acc, list, k, heap) ==
    IF k > Len(list) \/ acc.raised THEN acc
    ELSE LET r == IAdd(acc.self, ivs[list[k]], acc.heap)
         IN JoinFrom(r, list, k + 1, r.heap)

JoinLists == {<<1>>, <<1, 2>>, <<2, 1>>}

(* join_intervals(intervals): the whole call *)
JoinIntervals(list) ==
    /\ pc = "idle"
    /\ LET first == ivs[list[1]]
           h1 == SetTdists(segs, first.segments)
           result == [SSInterval(segs, first.segments) EXCEPT
                         !.has_time_nodes = first.has_time_nodes,
                         !.time_nodes = first.time_nodes,
                         !.has_brakingNodes = first.has_brakingNodes,
                         !.brakingNodes = first.brakingNodes]
           r == JoinFrom([raised |-> FALSE, self |-> result, heap |-> h1],
                         list, 2, h1)
       IN /\ segs' = r.heap
          /\ master' = IF r.raised THEN master ELSE r.self
          /\ status' = IF r.raised THEN "TypeError" ELSE "joined"
    /\ UNCHANGED <<ivs, pc, cur, loopSeg, initial_TimeNode, brakingNode, runs,
                   runInput, firstRun, optVars>>

-----------------------------------------------------------------------------
(* Optimizer: set_v_eff and simulate_interval_with_v_eff *)

\* arguments of the optimizers: global speed bounds, tenths of km/h
v_min == 36
v_max == 108

\* candidate speeds: below v_min, inside every segment's bounds, above every
\* speed limit; a candidate vector holds one speed for the first segment
\* and one for all the others, and is up to one entry too long
CandChoices == {18, 36, 108}
Candidates ==
    { [k \in 1 .. n |-> IF k = 1 THEN ab[1] ELSE ab[2]] :
        n \in 0 .. (MaxSegs + 1), ab \in CandChoices \X CandChoices }

\* the intervals a candidate is evaluated on: flat segments, one of them
\* shorter than the braking distance from its speed limit
EvalSegChoices ==
    { Segment(12000, <<0, 10000>>, 36, 36), Segment(2000, <<0, 10000>>, 72, 108) }

IndexIn(ids, s) == CHOOSE k \in 1 .. Len(ids) : ids[k] = s

(* the loop of set_v_eff over zip(segments, values), on the first n pairs *)
ApplyVEff(heap, ids, vals, n) ==
    [s \in DOMAIN heap |->
        IF \E k \in 1 .. n : ids[k] = s
        THEN LET seg == heap[s]
                 v_kmph == vals[IndexIn(ids, s)]
                 target == IF seg.speed_limit.mps > 0
                           THEN Min(v_kmph, seg.speed_limit.kmph) ELSE v_kmph
             IN [seg EXCEPT !.v_eff = Velocity(SpeedKmph(target)),
                            !.t_eff = t_eff_for(seg, SpeedKmph(target).mps)]
        ELSE heap[s]]

(* set_v_eff with the length compared after the loop has run over the     *)
(* zipped pairs                                                            *)
set_v_eff_late_check(heap, ids, v_eff_kmph) ==
    [raised |-> Len(v_eff_kmph) # Len(ids),
     heap |-> ApplyVEff(heap, ids, v_eff_kmph, Min(Len(v_eff_kmph), Len(ids)))]

(* optimize_main.set_v_eff(interval, v_eff_kmph) *)
set_v_eff(heap, ids, v_eff_kmph) ==
    IF Len(v_eff_kmph) # Len(ids)
    THEN [raised |-> TRUE, heap |-> heap]
    ELSE [raised |-> FALSE, heap |-> ApplyVEff(heap, ids, v_eff_kmph, Len(ids))]

(* optimize_velocity.set_v_eff(intervals, v_eff_kmph): v_eff_kmph is one  *)
(* number, <<"float", x>>, or one value per segment, <<"list", seq>>      *)
RECURSIVE Flatten(_, _)
Flatten(objs, list) ==
    IF list = <<>> THEN <<>>
    ELSE objs[list[1]].segments \o Flatten(objs, Tail(list))

set_v_eff_route(heap, objs, list, v_eff_kmph) ==
    LET all_segments == Flatten(objs, list)
    IN IF v_eff_kmph[1] = "float"
       THEN [raised |-> FALSE,
             heap |-> ApplyVEff(heap, all_segments,
                                [k \in 1 .. Len(all_segments) |-> v_eff_kmph[2]],
                                Len(all_segments))]
       ELSE IF Len(v_eff_kmph[2]) # Len(all_segments)
       THEN [raised |-> TRUE, heap |-> heap]
       ELSE [raised |-> FALSE,
             heap |-> ApplyVEff(heap, all_segments, v_eff_kmph[2],
                                Len(all_segments))]

(* a call of optimize_main.set_v_eff on the first interval, in place *)
SetVEff(v) ==
    /\ pc = "idle"
    /\ runs < MaxCalls
    /\ LET r == set_v_eff(segs, ivs[1].segments, v)
       IN /\ segs' = r.heap
          /\ status' = IF r.raised THEN "ValueError" ELSE "set"
    /\ cand' = [fn |-> "set_v_eff", v |-> v]
    /\ runs' = runs + 1
    /\ UNCHANGED <<ivs, pc, cur, loopSeg, initial_TimeNode, brakingNode, master,
                   runInput, firstRun, sss, opt, threads, bench, fd, vec, snap>>

(* a call of optimize_velocity.set_v_eff on the whole route, in place *)
SetVEffRoute(v) ==
    /\ pc = "idle"
    /\ runs < MaxCalls
    /\ LET r == set_v_eff_route(segs, ivs, <<1, 2>>, v)
       IN /\ segs' = r.heap
          /\ status' = IF r.raised THEN "ValueError" ELSE "set"
    /\ cand' = [fn |-> "set_v_eff_route", v |-> v]
    /\ runs' = runs + 1
    /\ UNCHANGED <<ivs, pc, cur, loopSeg, initial_TimeNode, brakingNode, master,
                   runInput, firstRun, sss, opt, threads, bench, fd, vec, snap>>

(* copy.deepcopy(interval): the copies of its segments get the ids after  *)
(* the route's; a TimeNode in the interval makes deepcopy raise TypeError *)
(* (getattr(node, "__deepcopy__") is answered -10 by TimeNode.__getattr__) *)
TrialIds(iv) == [k \in 1 .. Len(iv.segments) |-> MaxSegs + 1 + k]
DeepCopyRaises(iv) == iv.time_nodes # <<>> \/ iv.brakingNodes # <<>>
DeepCopyHeap(heap, iv) ==
    [s \in DOMAIN heap |->
        IF \E k \in 1 .. Len(iv.segments) : TrialIds(iv)[k] = s
        THEN heap[iv.segments[IndexIn(TrialIds(iv), s)]]
        ELSE heap[s]]
DeepCopy(iv) == [iv EXCEPT !.segments = TrialIds(iv)]

(* simulate_interval_with_v_eff with set_v_eff(interval, ...) in the place *)
(* of set_v_eff(trial, ...): the candidate is written to the shared        *)
(* interval after the copy was taken                                       *)
EvaluateOnShared(v) ==
    /\ pc = "idle"
    /\ cand' = [fn |-> "simulate_interval_with_v_eff", v |-> v]
    /\ LET trial == DeepCopy(ivs[1])
           copied == DeepCopyHeap(segs, ivs[1])
           r == set_v_eff(copied, ivs[1].segments, v)
           objs == [ivs EXCEPT ![TrialId] = trial]
       IN /\ segs' = r.heap
          /\ StartOn(objs, r.heap, TrialId)
    /\ UNCHANGED <<brakingNode, master, firstRun, sss, threads, bench, fd, vec, snap>>

(* simulate_interval_with_v_eff(interval, v_eff_kmph) on the first        *)
(* interval: deep copy, set_v_eff, and the start of trial.simulate_interval; *)
(* the value returned is the time of the trial's last node once            *)
(* simulate_interval has returned                                          *)
EvaluateOn(v) ==
    /\ pc = "idle"
    /\ cand' = [fn |-> "simulate_interval_with_v_eff", v |-> v]
    /\ IF DeepCopyRaises(ivs[1])
       THEN /\ status' = "TypeError"
            /\ runs' = runs + 1
            /\ UNCHANGED <<segs, ivs, pc, cur, loopSeg, initial_TimeNode, runInput>>
       ELSE LET trial == DeepCopy(ivs[1])
                copied == DeepCopyHeap(segs, ivs[1])
                r == set_v_eff(copied, trial.segments, v)
                objs == [ivs EXCEPT ![TrialId] = trial]
            IN /\ segs' = r.heap
               /\ IF r.raised
                  THEN /\ ivs' = objs
                       /\ status' = "ValueError"
                       /\ runs' = runs + 1
                       /\ UNCHANGED <<pc, cur, loopSeg, initial_TimeNode, runInput>>
                  ELSE StartOn(objs, r.heap, TrialId)
    /\ UNCHANGED <<brakingNode, master, firstRun, sss, threads, bench, fd, vec, snap>>

(* a call of simulate_interval_with_v_eff on the first interval *)
Evaluate(v) ==
    /\ runs < MaxCalls
    /\ EvaluateOn(v)
    /\ UNCHANGED opt

-----------------------------------------------------------------------------
(* common.simulate_single_segment, one action per loop iteration *)

\* its keyword arguments' defaults
dt_base == 1000               \* ms
dv_max_mps == 277             \* mm/s (1 / 3.6 m/s)

(* floor of the square root (np.sqrt), by bisection *)
RECURSIVE IsqrtIn(_, _, _)
IsqrtIn(n, lo, hi) ==
    IF lo >= hi THEN lo
    ELSE LET mid == (lo + hi + 1) \div 2
         IN IF mid * mid <= n THEN IsqrtIn(n, mid, hi) ELSE IsqrtIn(n, lo, mid - 1)
Isqrt(n) == IsqrtIn(n, 0, Min(n, 46340))

\* the segments simulate_single_segment is called on: flat; an uphill whose
\* grade force alone stays below the maximum motor force while grade plus
\* rolling resistance exceeds it; an uphill whose grade force exceeds it
SingleSegChoices ==
    { Segment(12000, sl, sp[1], sp[2]) :
        sl \in {<<0, 10000>>, <<150, 9999>>, <<2000, 9798>>}, sp \in SpeedChoices }
EntrySpeedChoices == {0, 1000, 2000}

(* lines 106-128: the locals before the loop *)
SingleStart(segment, entry_speed_mps, v_eff_kmph, max_steps) ==
    LET target_mps == IF segment.speed_limit.mps > 0
                      THEN Min(SpeedKmph(v_eff_kmph).mps, segment.speed_limit.mps)
                      ELSE SpeedKmph(v_eff_kmph).mps
    IN [pc |-> "loop", segment |-> segment, entry_speed_mps |-> entry_speed_mps,
        v_eff_kmph |-> v_eff_kmph, max_steps |-> max_steps,
        target_mps |-> target_mps, t_eff |-> t_eff_for(segment, target_mps),
        step |-> 0, speed |-> entry_speed_mps, dist |-> 0, elapsed |-> 0,
        energy |-> 0, ret |-> <<0, 0, 0>>]

(* lines 173-175: the stall test *)
StallDetected(c, new_speed) ==
    /\ new_speed <= 0
    /\ c.speed <= 0
    /\ Fm_calc(MAX_TORQUE) * num_motors < Fg_calc(c.segment)

(* lines 134-178: the body of one loop iteration, on the locals c *)
SingleBody(c) ==
    LET torque == IF c.speed < c.target_mps THEN MAX_TORQUE ELSE c.t_eff
        Fm == Fm_calc(torque) * num_motors
        Ft == Fm - Fd_calc(c.speed) - Frr_calc(c.segment) - Fg_calc(c.segment)
        acc == Ft \div car_mass
        dt1 == IF acc # 0 /\ Abs(acc * dt_base) > dv_max_mps * 1000
               THEN (dv_max_mps * 1000) \div Abs(acc)
               ELSE dt_base
        d_step == ((c.speed * dt1) \div 1000) + ((((acc * dt1) \div 1000) * dt1) \div 2000)
        remaining == c.segment.dist - c.dist
        disc == c.speed * c.speed + 2 * acc * remaining
        dt == IF d_step > remaining /\ c.speed > 0
              THEN IF acc # 0 /\ disc >= 0
                   \* (-speed + sqrt(disc)) / acc, in the form that keeps
                   \* its digits when acc is small
                   THEN Max((2 * remaining * 1000) \div (c.speed + Isqrt(disc)), 1)
                   ELSE (remaining * 1000) \div Max(c.speed, 1)
              ELSE dt1
        new_speed == c.speed + ((acc * dt) \div 1000)
        \* the boundary step is solved for d_step = remaining: it lands on
        \* the end of the segment
        dist == IF d_step > remaining /\ c.speed > 0 /\ (acc = 0 \/ disc >= 0)
                THEN c.dist + remaining
                ELSE c.dist + ((c.speed * dt) \div 1000)
                            + ((((acc * dt) \div 1000) * dt) \div 2000)
        elapsed == c.elapsed + dt
        P_mech == (((torque \div wheel_radius) * new_speed) \div 1000) * num_motors
        energy == IF new_speed > 0
                  THEN c.energy + ((((P_mech * 9) \div 10) * dt) \div 1000)
                  ELSE c.energy
    IN IF StallDetected(c, new_speed)
       THEN [c EXCEPT !.pc = "returned", !.step = @ + 1, !.dist = dist,
                      !.elapsed = elapsed, !.energy = energy,
                      !.ret = <<0, elapsed, energy>>]
       ELSE [c EXCEPT !.step = @ + 1, !.dist = dist, !.elapsed = elapsed,
                      !.energy = energy, !.speed = Max(0, new_speed)]

(* line 130-132: the loop goes on *)
SingleRunning(c) == c.pc = "loop" /\ c.step < c.max_steps /\ c.dist < c.segment.dist

(* line 180: return speed, elapsed, energy *)
SingleExit(c) == [c EXCEPT !.pc = "returned", !.ret = <<c.speed, c.elapsed, c.energy>>]

(* simulate_single_segment(segment, entry_speed_mps, v_eff_kmph) run to    *)
(* its return: <<exit_speed_mps, elapsed, energy>>                         *)
RECURSIVE SingleRun(_)
SingleRun(c) ==
    IF c.pc = "returned" THEN c.ret
    ELSE IF SingleRunning(c) THEN SingleRun(SingleBody(c))
    ELSE SingleExit(c).ret

simulate_single_segment(segment, entry_speed_mps, v_eff_kmph, max_steps) ==
    SingleRun(SingleStart(segment, entry_speed_mps, v_eff_kmph, max_steps))

(* a call of simulate_single_segment *)
SingleCall(segment, entry_speed_mps, v_eff_kmph) ==
    /\ pc = "idle"
    /\ sss.pc = "idle"
    /\ sss' = SingleStart(segment, entry_speed_mps, v_eff_kmph, MaxSteps)
    /\ UNCHANGED <<simVars, cand, opt, threads, bench, fd, vec, snap>>

SingleStep ==
    /\ SingleRunning(sss)
    /\ sss' = SingleBody(sss)
    /\ UNCHANGED <<simVars, cand, opt, threads, bench, fd, vec, snap>>

SingleReturn ==
    /\ sss.pc = "loop"
    /\ ~SingleRunning(sss)
    /\ sss' = SingleExit(sss)
    /\ UNCHANGED <<simVars, cand, opt, threads, bench, fd, vec, snap>>

InitSingle ==
    LET raw == [s \in SegIds |-> SegB]
    IN /\ segs = SetTdists(raw, <<1>>)
       /\ ivs = [i \in ObjIds |->
                   IF i = 1 THEN SSInterval(raw, <<1>>) ELSE NoInterval]
       /\ pc = "idle"
       /\ cur = 0
       /\ loopSeg = 0
       /\ initial_TimeNode = NoNode
       /\ brakingNode = 0
       /\ status = "none"
       /\ runs = 0
       /\ master = NoInterval
       /\ runInput = <<>>
       /\ firstRun = NoRun
       /\ cand = <<>>
       /\ sss = NoCall
       /\ opt = NoOpt
       /\ threads = NoThreads
       /\ bench = NoBench
       /\ fd = NoFd
       /\ vec = NoVec
       /\ snap = NoSnap

NextSingle ==
    \/ \E segment \in SingleSegChoices, entry_speed_mps \in EntrySpeedChoices,
          v_eff_kmph \in CandChoices :
            SingleCall(segment, entry_speed_mps, v_eff_kmph)
    \/ SingleStep
    \/ SingleReturn

SpecSingle == InitSingle /\ [][NextSingle]_vars

InitWith(choices) ==
    \E n \in 1 .. MaxSegs :
    \E cfg \in [1 .. n -> choices] :
        LET idsA == [k \in 1 .. n |-> k]
            idB  == MaxSegs + 1
            raw  == [s \in SegIds |->
                        IF s <= n THEN cfg[s]
                        ELSE IF s = idB THEN SegB
                        ELSE cfg[1]]
            h1   == SetTdists(raw, idsA)
            h2   == SetTdists(h1, <<idB>>)
        IN /\ segs = h2
           /\ ivs = [i \in ObjIds |->
                       IF i = 1 THEN SSInterval(raw, idsA)
                       ELSE IF i = 2 THEN SSInterval(h1, <<idB>>)
                       ELSE NoInterval]
           /\ pc = "idle"
           /\ cur = 0
           /\ loopSeg = 0
           /\ initial_TimeNode = NoNode
           /\ brakingNode = 0
           /\ status = "none"
           /\ runs = 0
           /\ master = NoInterval
           /\ runInput = <<>>
           /\ firstRun = NoRun
           /\ cand = <<>>
           /\ sss = NoCall
           /\ opt = NoOpt
           /\ threads = NoThreads
           /\ bench = NoBench
           /\ fd = NoFd
           /\ vec = NoVec
           /\ snap = NoSnap

InitEval == InitWith(EvalSegChoices)

NextEval ==
    \/ \E v \in Candidates : Evaluate(v)
    \/ \E v \in Candidates : SetVEff(v)
    \/ \E v \in { <<"list", c>> : c \in Candidates }
                 \cup { <<"float", x>> : x \in CandChoices } : SetVEffRoute(v)
    \/ BrakingStep
    \/ BrakingNextSegment
    \/ PadLastSegment
    \/ ForwardStep
    \/ ForwardNextSegment
    \/ SimulateReturn

SpecEval == InitEval /\ [][NextEval]_vars

-----------------------------------------------------------------------------
(* optimizer.common.build_bounds, optimize_dp and optimize_ga *)

(* build_bounds(interval, v_min, v_max): per-segment <<lo, hi>> in km/h *)
build_bounds(heap, ids, vmin, vmax) ==
    [k \in 1 .. Len(ids) |->
        LET seg == heap[ids[k]]
            hi == IF seg.speed_limit.mps > 0
                  THEN Min(vmax, seg.speed_limit.kmph) ELSE vmax
            lo == IF seg.speed_limit.mps > 0 THEN Min(vmin, hi) ELSE vmin
        IN <<lo, hi>>]

(* np.arange(start, stop, step) with stop given doubled (stop2 = 2 * stop), *)
(* so that the half step of the action grid stays an integer:              *)
(* ceil((stop - start) / step) values start, start + step, ...             *)
arange(start, stop2, step) ==
    LET n == IF stop2 > 2 * start
             THEN (stop2 - 2 * start + 2 * step - 1) \div (2 * step)
             ELSE 0
    IN [i \in 1 .. n |-> start + (i - 1) * step]

(* np.searchsorted(grid, value): the 0-based leftmost insertion index *)
searchsorted(grid, value) ==
    Cardinality({i \in 1 .. Len(grid) : grid[i] < value})

(* common._snap_to_grid: 0-based index of the nearest grid point, the lower *)
(* one on a tie                                                             *)
snap_to_grid(value, grid) ==
    LET idx == searchsorted(grid, value)
    IN IF idx > 0 /\ (idx >= Len(grid)
                      \/ Abs(grid[idx] - value) <= Abs(grid[idx + 1] - value))
       THEN idx - 1
       ELSE idx

(* optimize_dp lines 143-154: the exit speed snapped to a 0-based grid     *)
(* index, the upper one on a tie                                           *)
exit_idx(grid, es) ==
    LET S == Len(grid)
        idx == Min(Max(searchsorted(grid, es), 0), S - 1)
        prev_idx == Min(Max(idx - 1, 0), S - 1)
        closer_to_prev == Abs(grid[prev_idx + 1] - es) < Abs(grid[idx + 1] - es)
    IN IF closer_to_prev THEN prev_idx ELSE idx

(* arguments of the optimizers *)
max_steps == 50000            \* simulate_single_segment's default
Inf == 1000000000             \* np.inf, above every time in ms
pop_size == 2
generations == 1
elitism == 1
tournament_k == 2

(* optimize_dp line 120: BRAKE / car_mass, in mm/s^2 *)
a_brake == BRAKE \div car_mass

(* optimize_dp lines 104-106: the state grid in mm/s *)
speed_grid(vmax, speed_resolution) ==
    LET speed_grid_kmph == arange(0, 2 * (vmax + speed_resolution), speed_resolution)
    IN [s \in 1 .. Len(speed_grid_kmph) |-> (speed_grid_kmph[s] * 1000) \div 36]

(* optimize_dp lines 108-117: the action grid of each segment in km/h *)
action_grids(heap, ids, vmin, vmax, v_eff_resolution) ==
    [k \in 1 .. Len(ids) |->
        LET seg == heap[ids[k]]
            hi == IF seg.speed_limit.mps > 0
                  THEN Min(vmax, seg.speed_limit.kmph) ELSE vmax
            lo == IF seg.speed_limit.mps > 0 THEN Min(vmin, hi) ELSE vmin
        IN arange(lo, 2 * hi + v_eff_resolution, v_eff_resolution)]

(* _precompute_segment_transitions for every segment:                      *)
(* tables[k][s][a] = <<exit speed, elapsed, energy>>                       *)
precompute_transitions(heap, ids, grid, actions) ==
    [k \in 1 .. Len(ids) |->
        [s \in 1 .. Len(grid) |->
            [a \in 1 .. Len(actions[k]) |->
                simulate_single_segment(heap[ids[k]], grid[s], actions[k][a],
                                        max_steps)]]]

(* inf + x and x + inf are inf *)
AddCost(a, b) == IF a >= Inf \/ b >= Inf THEN Inf ELSE a + b

(* np.argmin as a 1-based index: the first position of the least value *)
argmin(f) ==
    CHOOSE i \in 1 .. Len(f) :
        /\ \A j \in 1 .. Len(f) : f[i] <= f[j]
        /\ \A j \in 1 .. (i - 1) : f[j] > f[i]

RECURSIVE SumSeq(_)
SumSeq(f) == IF f = <<>> THEN 0 ELSE f[1] + SumSeq(Tail(f))

(* optimize_dp lines 101-162: grids, transition tables, exit indices, the  *)
(* DP tables and the terminal cost                                         *)
DPStart(vmin, vmax, speed_resolution, v_eff_resolution) ==
    /\ pc = "idle"
    /\ opt.pc = "idle"
    /\ LET ids == ivs[1].segments
           K == Len(ids)
           grid == speed_grid(vmax, speed_resolution)
           S == Len(grid)
           actions == action_grids(segs, ids, vmin, vmax, v_eff_resolution)
           tables == precompute_transitions(segs, ids, grid, actions)
       IN opt' = [NoOpt EXCEPT
                    !.pc = "dp_backward",
                    !.method = "dynamic_programming",
                    !.v_min = vmin, !.v_max = vmax,
                    !.speed_resolution = speed_resolution,
                    !.v_eff_resolution = v_eff_resolution,
                    !.speed_grid_mps = grid,
                    !.per_seg_actions = actions,
                    !.transition_tables = tables,
                    !.exit_idx_tables =
                        [k \in 1 .. K |-> [s \in 1 .. S |->
                            [a \in 1 .. Len(actions[k]) |->
                                exit_idx(grid, tables[k][s][a][1])]]],
                    !.V = [k \in 1 .. (K + 1) |-> [s \in 1 .. S |->
                            IF k = K + 1
                            THEN (IF grid[s] > 0
                                  THEN (grid[s] * 1000) \div a_brake ELSE 0)
                            ELSE Inf]],
                    !.policy = [k \in 1 .. K |-> [s \in 1 .. S |-> -1]],
                    !.k = K - 1,
                    !.n_evals = SumSeq([k \in 1 .. K |-> S * Len(actions[k])])]
    /\ UNCHANGED <<simVars, cand, sss, threads, bench, fd, vec, snap>>

(* DPBackward taking the first action of every state instead of the      *)
(* cheapest                                                                *)
DPBackwardFirstAction ==
    /\ opt.pc = "dp_backward"
    /\ LET ids == ivs[1].segments
           k == opt.k + 1
           grid == opt.speed_grid_mps
           A_k == Len(opt.per_seg_actions[k])
           remaining_after == ivs[1].total_dist - segs[ids[k]].tdist
           remaining_from_here == remaining_after + segs[ids[k]].dist
           brake_dist(s) == (grid[s] * grid[s]) \div (2 * a_brake)
           total_costs(s) ==
               [a \in 1 .. A_k |->
                   AddCost(opt.transition_tables[k][s][a][2],
                           opt.V[k + 1][opt.exit_idx_tables[k][s][a] + 1])]
           skip(s) == 2 * brake_dist(s) > 3 * remaining_from_here
           best_a(s) == 1
           set(s) == ~skip(s) /\ total_costs(s)[best_a(s)] < Inf
       IN opt' = [opt EXCEPT
                    !.V[k] = [s \in 1 .. Len(grid) |->
                                IF set(s) THEN total_costs(s)[best_a(s)] ELSE @[s]],
                    !.policy[k] = [s \in 1 .. Len(grid) |->
                                IF set(s) THEN best_a(s) - 1 ELSE @[s]],
                    !.k = IF opt.k = 0 THEN 0 ELSE opt.k - 1,
                    !.s_idx = 0,
                    !.pc = IF opt.k = 0 THEN "dp_forward" ELSE "dp_backward"]
    /\ UNCHANGED <<simVars, cand, sss, threads, bench, fd, vec, snap>>

(* optimize_dp lines 171-194: one iteration of the backward sweep, for the *)
(* segment of 0-based index opt.k; after the last one the forward pass     *)
(* starts from rest (lines 200-201)                                        *)
DPBackward ==
    /\ opt.pc = "dp_backward"
    /\ LET ids == ivs[1].segments
           k == opt.k + 1
           grid == opt.speed_grid_mps
           A_k == Len(opt.per_seg_actions[k])
           remaining_after == ivs[1].total_dist - segs[ids[k]].tdist
           remaining_from_here == remaining_after + segs[ids[k]].dist
           brake_dist(s) == (grid[s] * grid[s]) \div (2 * a_brake)
           total_costs(s) ==
               [a \in 1 .. A_k |->
                   AddCost(opt.transition_tables[k][s][a][2],
                           opt.V[k + 1][opt.exit_idx_tables[k][s][a] + 1])]
           skip(s) == 2 * brake_dist(s) > 3 * remaining_from_here
           best_a(s) == argmin(total_costs(s))
           set(s) == ~skip(s) /\ total_costs(s)[best_a(s)] < Inf
       IN opt' = [opt EXCEPT
                    !.V[k] = [s \in 1 .. Len(grid) |->
                                IF set(s) THEN total_costs(s)[best_a(s)] ELSE @[s]],
                    !.policy[k] = [s \in 1 .. Len(grid) |->
                                IF set(s) THEN best_a(s) - 1 ELSE @[s]],
                    !.k = IF opt.k = 0 THEN 0 ELSE opt.k - 1,
                    !.s_idx = 0,
                    !.pc = IF opt.k = 0 THEN "dp_forward" ELSE "dp_backward"]
    /\ UNCHANGED <<simVars, cand, sss, threads, bench, fd, vec, snap>>

(* DPForward without the fallback of lines 205-207: the unset entry -1    *)
(* indexes the action grid from its end                                    *)
DPForwardNoFallback ==
    /\ opt.pc = "dp_forward"
    /\ LET k == opt.k + 1
           a_idx == opt.policy[k][opt.s_idx + 1]
           a_idx_used == IF a_idx >= 0 THEN a_idx ELSE 0
           A_k == Len(opt.per_seg_actions[k])
           v_eff == opt.per_seg_actions[k][IF a_idx < 0 THEN A_k + a_idx + 1
                                           ELSE a_idx + 1]
           exit_speed == opt.transition_tables[k][opt.s_idx + 1][a_idx_used + 1][1]
       IN opt' = [opt EXCEPT
                    !.optimal_speeds = Append(@, v_eff),
                    !.s_idx = snap_to_grid(exit_speed, opt.speed_grid_mps),
                    !.k = opt.k + 1,
                    !.pc = IF k = Len(ivs[1].segments) THEN "validate"
                           ELSE "dp_forward"]
    /\ UNCHANGED <<simVars, cand, sss, threads, bench, fd, vec, snap>>

(* optimize_dp lines 203-218: one iteration of the forward pass *)
DPForward ==
    /\ opt.pc = "dp_forward"
    /\ LET k == opt.k + 1
           a_idx == opt.policy[k][opt.s_idx + 1]
           a_idx_used == IF a_idx >= 0 THEN a_idx ELSE 0
           v_eff == IF a_idx < 0 THEN opt.per_seg_actions[k][1]
                    ELSE opt.per_seg_actions[k][a_idx + 1]
           exit_speed == opt.transition_tables[k][opt.s_idx + 1][a_idx_used + 1][1]
       IN opt' = [opt EXCEPT
                    !.optimal_speeds = Append(@, v_eff),
                    !.s_idx = snap_to_grid(exit_speed, opt.speed_grid_mps),
                    !.k = opt.k + 1,
                    !.pc = IF k = Len(ivs[1].segments) THEN "validate"
                           ELSE "dp_forward"]
    /\ UNCHANGED <<simVars, cand, sss, threads, bench, fd, vec, snap>>

(* the value simulate_interval_with_v_eff returns (line 43) and the log of *)
(* the calls that have returned: <<candidate, time>>                       *)
ReturnedTime == Last(ivs[TrialId].time_nodes).time
Logged == Append(opt.evals, <<cand.v, ReturnedTime>>)
EvaluationReturned == pc = "idle" /\ status = "returned"

(* optimize_dp line 223: validate_with_full_sim(interval, optimal_speeds), *)
(* up to the start of the trial's simulate_interval                        *)
DPValidate ==
    /\ opt.pc = "validate"
    /\ opt.method = "dynamic_programming"
    /\ EvaluateOn(opt.optimal_speeds)
    /\ opt' = [opt EXCEPT !.pc = "validating"]

(* DPReturn reporting the DP's own cost V[0][0] instead of the validated   *)
(* time                                                                    *)
DPReturnTableCost ==
    /\ opt.pc = "validating"
    /\ opt.method = "dynamic_programming"
    /\ EvaluationReturned
    /\ opt' = [opt EXCEPT
                 !.pc = "returned", !.evals = Logged,
                 !.result = [method |-> opt.method,
                             speeds_kmph |-> opt.optimal_speeds,
                             total_time |-> opt.V[1][1],
                             n_evals |-> opt.n_evals]]
    /\ UNCHANGED <<simVars, cand, sss, threads, bench, fd, vec, snap>>

(* optimize_dp lines 223-231: the simulation has returned;                 *)
(* OptResult("dynamic_programming", optimal_speeds, actual_time, n_evals)  *)
DPReturn ==
    /\ opt.pc = "validating"
    /\ opt.method = "dynamic_programming"
    /\ pc = "idle"
    /\ status = "returned"
    /\ opt' = [opt EXCEPT
                 !.pc = "returned", !.evals = Logged,
                 !.result = [method |-> opt.method,
                             speeds_kmph |-> opt.optimal_speeds,
                             total_time |-> Last(ivs[TrialId].time_nodes).time,
                             n_evals |-> opt.n_evals]]
    /\ UNCHANGED <<simVars, cand, sss, threads, bench, fd, vec, snap>>

(* the values a gene is drawn from: rng.uniform(lo, hi) gives lo or the    *)
(* midpoint, a clipped value gives lo or hi                                *)
DrawChoices(b) == {b[1], (b[1] + b[2]) \div 2}
ClipChoices(b) == {b[1], b[2]}

(* the vectors whose gene i is in allowed[i] *)
Vectors(allowed) ==
    { c \in [1 .. Len(allowed) -> UNION { allowed[i] : i \in 1 .. Len(allowed) }] :
        \A i \in 1 .. Len(allowed) : c[i] \in allowed[i] }

(* optimize_ga lines 91-104: bounds and the initial population; local      *)
(* search is switched off (local_search = False)                           *)
(* draw[j] says which of the two every gene of individual j is             *)
GAStart(vmin, vmax, draw) ==
    /\ pc = "idle"
    /\ opt.pc = "idle"
    /\ LET bounds == build_bounds(segs, ivs[1].segments, vmin, vmax)
       IN opt' = [NoOpt EXCEPT
                    !.pc = "ga_fitness",
                    !.method = "ga",
                    !.v_min = vmin, !.v_max = vmax,
                    !.bounds = bounds,
                    !.population =
                        [j \in 1 .. pop_size |-> [i \in 1 .. Len(bounds) |->
                            IF draw[j] = 1 THEN bounds[i][1]
                            ELSE (bounds[i][1] + bounds[i][2]) \div 2]],
                    !.eval_i = 1]
    /\ UNCHANGED <<simVars, cand, sss, threads, bench, fd, vec, snap>>

(* fitness(x), lines 98-101: a call of simulate_interval_with_v_eff on the *)
(* next individual, up to the start of the trial's simulate_interval       *)
GAFitness ==
    /\ opt.pc = "ga_fitness"
    /\ EvaluateOn(opt.population[opt.eval_i])
    /\ opt' = [opt EXCEPT !.pc = "ga_simulating", !.n_evals = @ + 1]

(* the fitness call has returned the time of the trial's last node; after  *)
(* the last individual, lines 107-110 (generation 0) or 148-151 keep the   *)
(* best individual seen so far                                             *)
GAFitnessReturn ==
    /\ opt.pc = "ga_simulating"
    /\ pc = "idle"
    /\ status = "returned"
    /\ LET fit == Append(opt.fit, Last(ivs[TrialId].time_nodes).time)
           best_idx == argmin(fit)
           better == opt.gen = 0 \/ fit[best_idx] < opt.best_fit
       IN opt' = IF opt.eval_i < pop_size
                 THEN [opt EXCEPT !.pc = "ga_fitness", !.fit = fit,
                                  !.evals = Logged, !.eval_i = @ + 1]
                 ELSE [opt EXCEPT
                         !.pc = IF opt.gen < generations THEN "ga_generation"
                                ELSE "validate",
                         !.fit = fit, !.evals = Logged,
                         !.best_ever = IF better THEN opt.population[best_idx]
                                       ELSE @,
                         !.best_fit = IF better THEN fit[best_idx] ELSE @]
    /\ UNCHANGED <<simVars, cand, sss, threads, bench, fd, vec, snap>>

(* np.argsort(fit)[:elitism]: the indices of the least fitness values *)
elite_indices(fit) ==
    LET rank(i) == Cardinality({j \in 1 .. Len(fit) :
                        fit[j] < fit[i] \/ (fit[j] = fit[i] /\ j < i)})
    IN [e \in 1 .. elitism |-> CHOOSE i \in 1 .. Len(fit) : rank(i) = e - 1]

(* _tournament_select: the individuals a tournament of tournament_k        *)
(* distinct entrants can return                                            *)
tournament_select(population, fit) ==
    { population[w] : w \in
        { w \in 1 .. Len(population) :
            \E T \in SUBSET (1 .. Len(population)) :
                /\ Cardinality(T) = tournament_k
                /\ w \in T
                /\ \A j \in T : fit[w] <= fit[j] } }

(* _blx_crossover: the children of p1 and p2; a gene is drawn between      *)
(* lower and upper and clipped to its bounds                               *)
blx_crossover(p1, p2, bounds) ==
    LET d(i) == Abs(p1[i] - p2[i])
        lower2(i) == 2 * Min(p1[i], p2[i]) - d(i)
        upper2(i) == 2 * Max(p1[i], p2[i]) + d(i)
        allowed(i) ==
            { g \in DrawChoices(bounds[i]) \cup ClipChoices(bounds[i])
                       \cup {p1[i], p2[i]} :
                /\ 2 * g >= Max(2 * bounds[i][1], lower2(i))
                /\ 2 * g <= Min(2 * bounds[i][2], upper2(i)) }
    IN Vectors([i \in 1 .. Len(bounds) |-> allowed(i)])

(* lines 136-141: each gene is left alone or perturbed and clipped *)
mutate(child, bounds) ==
    Vectors([i \in 1 .. Len(bounds) |-> {child[i]} \cup ClipChoices(bounds[i])])

(* GAGeneration without lines 120-123: no individual is carried over, the  *)
(* whole population is made of children                                    *)
GAGenerationNoElite ==
    /\ opt.pc = "ga_generation"
    /\ LET elite == elite_indices(opt.fit)
           parents == tournament_select(opt.population, opt.fit)
           children == UNION { mutate(c, opt.bounds) :
                                c \in UNION { blx_crossover(p1, p2, opt.bounds) \cup {p1, p2} :
                                                p1 \in parents, p2 \in parents } }
       IN \E rest \in [1 .. pop_size -> children] :
            opt' = [opt EXCEPT
                      !.pc = "ga_fitness",
                      !.population =
                          [j \in 1 .. pop_size |->
                              rest[j]],
                      !.prev_population = opt.population,
                      !.prev_fit = opt.fit,
                      !.fit = <<>>, !.eval_i = 1, !.gen = @ + 1]
    /\ UNCHANGED <<simVars, cand, sss, threads, bench, fd, vec, snap>>

(* optimize_ga lines 117-145: the next generation: the elite, then children *)
(* by tournament selection, crossover or copy, and mutation                 *)
GAGeneration ==
    /\ opt.pc = "ga_generation"
    /\ LET elite == elite_indices(opt.fit)
           parents == tournament_select(opt.population, opt.fit)
           children == UNION { mutate(c, opt.bounds) :
                                c \in UNION { blx_crossover(p1, p2, opt.bounds) \cup {p1, p2} :
                                                p1 \in parents, p2 \in parents } }
       IN \E rest \in [(elitism + 1) .. pop_size -> children] :
            opt' = [opt EXCEPT
                      !.pc = "ga_fitness",
                      !.population =
                          [j \in 1 .. pop_size |->
                              IF j <= elitism THEN opt.population[elite[j]]
                              ELSE rest[j]],
                      !.prev_population = opt.population,
                      !.prev_fit = opt.fit,
                      !.fit = <<>>, !.eval_i = 1, !.gen = @ + 1]
    /\ UNCHANGED <<simVars, cand, sss, threads, bench, fd, vec, snap>>

(* optimize_ga line 178: validate_with_full_sim(interval, list(best_ever)), *)
(* up to the start of the trial's simulate_interval                         *)
GAValidate ==
    /\ opt.pc = "validate"
    /\ opt.method = "ga"
    /\ EvaluateOn(opt.best_ever)
    /\ opt' = [opt EXCEPT !.pc = "validating"]

(* optimize_ga lines 177-185: the simulation has returned;                 *)
(* OptResult("ga", speeds, actual_time, n_evals)                           *)
GAReturn ==
    /\ opt.pc = "validating"
    /\ opt.method = "ga"
    /\ pc = "idle"
    /\ status = "returned"
    /\ opt' = [opt EXCEPT
                 !.pc = "returned", !.evals = Logged,
                 !.result = [method |-> opt.method,
                             speeds_kmph |-> opt.best_ever,
                             total_time |-> Last(ivs[TrialId].time_nodes).time,
                             n_evals |-> opt.n_evals]]
    /\ UNCHANGED <<simVars, cand, sss, threads, bench, fd, vec, snap>>

(* scipy's differential_evolution and minimize are library code: a call    *)
(* is modelled by its result x, a vector within the bounds (every gene at  *)
(* lo, at the midpoint or at hi), and by the objective call the library    *)
(* makes on that x                                                         *)
LibraryResults(bounds) ==
    { [i \in 1 .. Len(bounds) |->
          IF d = 1 THEN bounds[i][1]
          ELSE IF d = 2 THEN (bounds[i][1] + bounds[i][2]) \div 2
          ELSE bounds[i][2]] : d \in {1, 2, 3} }

n_restarts == 2

(* optimize_de lines 37-54: bounds, then differential_evolution, up to the *)
(* start of the trial's simulate_interval in objective(x)                  *)
DEStart(vmin, vmax) ==
    /\ opt.pc = "idle"
    /\ LET bounds == build_bounds(segs, ivs[1].segments, vmin, vmax)
       IN \E x \in LibraryResults(bounds) :
            /\ EvaluateOn(x)
            /\ opt' = [NoOpt EXCEPT
                         !.pc = "de_objective",
                         !.method = "differential_evolution",
                         !.v_min = vmin, !.v_max = vmax,
                         !.bounds = bounds, !.best_ever = x, !.n_evals = 1]

(* optimize_de lines 57-58: differential_evolution has returned result.x;  *)
(* validate_with_full_sim(interval, speeds)                                *)
DEValidate ==
    /\ opt.pc = "de_objective"
    /\ EvaluationReturned
    /\ EvaluateOn(opt.best_ever)
    /\ opt' = [opt EXCEPT !.pc = "validating", !.evals = Logged]

(* optimize_de lines 58-64: OptResult("differential_evolution", speeds,    *)
(* actual_time, n_evals)                                                   *)
DEReturn ==
    /\ opt.pc = "validating"
    /\ opt.method = "differential_evolution"
    /\ EvaluationReturned
    /\ opt' = [opt EXCEPT
                 !.pc = "returned", !.evals = Logged,
                 !.result = [method |-> opt.method,
                             speeds_kmph |-> opt.best_ever,
                             total_time |-> ReturnedTime,
                             n_evals |-> opt.n_evals]]
    /\ UNCHANGED <<simVars, cand, sss, threads, bench, fd, vec, snap>>

(* optimize_slsqp lines 36-56: on the first restart the bounds and          *)
(* best_time = inf, then x0 and minimize, up to the start of the trial's    *)
(* simulate_interval in objective(x)                                        *)
SLSQPRestart(vmin, vmax) ==
    /\ opt.pc \in {"idle", "slsqp_loop"}
    /\ opt.pc = "slsqp_loop" => (vmin = opt.v_min /\ vmax = opt.v_max)
    /\ LET bounds == build_bounds(segs, ivs[1].segments, vmin, vmax)
           start == IF opt.pc = "idle"
                    THEN [NoOpt EXCEPT !.method = "slsqp_multistart",
                                       !.v_min = vmin, !.v_max = vmax,
                                       !.bounds = bounds, !.best_fit = Inf]
                    ELSE opt
       IN \E x \in LibraryResults(bounds) :
            /\ EvaluateOn(x)
            /\ opt' = [start EXCEPT !.pc = "slsqp_objective", !.x = x,
                                    !.n_evals = @ + 1]

(* optimize_slsqp line 57: t = validate_with_full_sim(interval, result.x)  *)
SLSQPRestartValidate ==
    /\ opt.pc = "slsqp_objective"
    /\ EvaluationReturned
    /\ EvaluateOn(opt.x)
    /\ opt' = [opt EXCEPT !.pc = "slsqp_validating", !.evals = Logged]

(* optimize_slsqp lines 61-67: the best restart so far; after the last     *)
(* restart validate_with_full_sim(interval, list(best_result.x))           *)
SLSQPRestartDone ==
    /\ opt.pc = "slsqp_validating"
    /\ EvaluationReturned
    /\ LET t == ReturnedTime
           best == [opt EXCEPT
                      !.evals = Logged,
                      !.restart = @ + 1,
                      !.best_fit = IF t < @ THEN t ELSE @,
                      !.best_ever = IF t < opt.best_fit THEN opt.x ELSE @]
       IN IF best.restart < n_restarts
          THEN /\ opt' = [best EXCEPT !.pc = "slsqp_loop"]
               /\ UNCHANGED <<simVars, cand, sss, threads, bench, fd, vec, snap>>
          ELSE /\ EvaluateOn(best.best_ever)
               /\ opt' = [best EXCEPT !.pc = "validating"]

(* optimize_slsqp lines 67-72: OptResult("slsqp_multistart", speeds,       *)
(* actual_time, n_evals)                                                   *)
SLSQPReturn ==
    /\ opt.pc = "validating"
    /\ opt.method = "slsqp_multistart"
    /\ EvaluationReturned
    /\ opt' = [opt EXCEPT
                 !.pc = "returned", !.evals = Logged,
                 !.result = [method |-> opt.method,
                             speeds_kmph |-> opt.best_ever,
                             total_time |-> ReturnedTime,
                             n_evals |-> opt.n_evals]]
    /\ UNCHANGED <<simVars, cand, sss, threads, bench, fd, vec, snap>>

(* the caller runs validate_with_full_sim(interval, result.speeds_kmph)    *)
(* on the interval the solver was given (common.py lines 58-63)            *)
FreshValidate ==
    /\ opt.pc = "returned"
    /\ EvaluateOn(opt.result.speeds_kmph)
    /\ opt' = [opt EXCEPT !.pc = "fresh_validating"]

FreshReturn ==
    /\ opt.pc = "fresh_validating"
    /\ EvaluationReturned
    /\ opt' = [opt EXCEPT !.pc = "fresh_returned", !.evals = Logged,
                          !.fresh_time = ReturnedTime]
    /\ UNCHANGED <<simVars, cand, sss, threads, bench, fd, vec, snap>>

(* the arguments given to the optimizers: <<v_min, v_max>> and, for the DP, *)
(* <<v_min, v_max, speed_resolution, v_eff_resolution>>, in tenths of km/h  *)
GAArgChoices == {<<36, 108>>, <<72, 108>>}
DPArgChoices == {<<36, 108, 36, 36>>, <<72, 108, 36, 36>>, <<36, 108, 36, 40>>,
                 <<70, 108, 36, 2>>}

\* the intervals the solvers are given: those of EvalSegChoices, a segment
\* long enough for the candidate speed to change the time, and one too
\* short to stop on from its speed limit
OptSegChoices ==
    EvalSegChoices \cup { Segment(12000, <<0, 10000>>, 72, 108),
                          Segment(500, <<0, 10000>>, 72, 108) }

\* the intervals two concurrent evaluations share
ConcSegChoices == EvalSegChoices \cup { Segment(12000, <<0, 10000>>, 72, 108) }

InitOpt == InitWith(OptSegChoices)

NextOpt ==
    \/ \E a \in DPArgChoices : DPStart(a[1], a[2], a[3], a[4])
    \/ DPBackward
    \/ DPForward
    \/ DPValidate
    \/ DPReturn
    \/ \E a \in GAArgChoices, draw \in [1 .. pop_size -> {1, 2}] :
            GAStart(a[1], a[2], draw)
    \/ GAFitness
    \/ GAFitnessReturn
    \/ GAGeneration
    \/ GAValidate
    \/ GAReturn
    \/ \E a \in GAArgChoices : DEStart(a[1], a[2])
    \/ DEValidate
    \/ DEReturn
    \/ \E a \in GAArgChoices : SLSQPRestart(a[1], a[2])
    \/ SLSQPRestartValidate
    \/ SLSQPRestartDone
    \/ SLSQPReturn
    \/ FreshValidate
    \/ FreshReturn
    \/ BrakingStep
    \/ BrakingNextSegment
    \/ PadLastSegment
    \/ ForwardStep
    \/ ForwardNextSegment
    \/ SimulateReturn

SpecOpt == InitOpt /\ [][NextOpt]_vars

-----------------------------------------------------------------------------
(* two threads calling simulate_interval_with_v_eff on the first interval  *)
(* at once.  pc, cur, loopSeg, initial_TimeNode, brakingNode, status and   *)
(* runInput are the locals of the thread that is running; threads.parked   *)
(* holds those of the other one; segs and ivs are the heap they share.     *)

ConcTrial(t) == IF t = 1 THEN TrialId ELSE Trial2Id
ConcSegIds(iv, t) == [k \in 1 .. Len(iv.segments) |-> t * MaxSegs + 1 + k]

(* line 40: trial = copy.deepcopy(interval), by the running thread *)
ConcDeepCopy(v) ==
    /\ pc = "idle"
    /\ threads.phase[threads.running] = "none"
    /\ Len(v) = Len(ivs[1].segments)
    /\ LET t == threads.running
           ids == ConcSegIds(ivs[1], t)
       IN IF DeepCopyRaises(ivs[1])
          THEN /\ threads' = [threads EXCEPT !.phase[t] = "raised", !.v[t] = v]
               /\ UNCHANGED <<segs, ivs>>
          ELSE /\ segs' = [s \in DOMAIN segs |->
                            IF \E k \in DOMAIN ids : ids[k] = s
                            THEN segs[ivs[1].segments[IndexIn(ids, s)]]
                            ELSE segs[s]]
               /\ ivs' = [ivs EXCEPT ![ConcTrial(t)] =
                                        [ivs[1] EXCEPT !.segments = ids]]
               /\ threads' = [threads EXCEPT
                                !.phase[t] = "copied", !.v[t] = v,
                                !.before = IF @ = <<>>
                                           THEN Snapshot(segs, ivs[1]) ELSE @]
    /\ UNCHANGED <<pc, cur, loopSeg, initial_TimeNode, brakingNode, status, runs,
                   master, runInput, firstRun, cand, sss, opt, bench, fd, vec, snap>>

(* ConcSetVEff writing the candidate to the shared interval's segments *)
ConcSetVEffShared ==
    /\ threads.phase[threads.running] = "copied"
    /\ LET t == threads.running
           r == set_v_eff(segs, ivs[1].segments, threads.v[t])
       IN /\ segs' = r.heap
          /\ threads' = [threads EXCEPT !.phase[t] = "set"]
    /\ UNCHANGED <<ivs, pc, cur, loopSeg, initial_TimeNode, brakingNode, status,
                   runs, master, runInput, firstRun, cand, sss, opt, bench, fd, vec, snap>>

(* line 41: set_v_eff(trial, v_eff_kmph), by the running thread *)
ConcSetVEff ==
    /\ threads.phase[threads.running] = "copied"
    /\ LET t == threads.running
           r == set_v_eff(segs, ivs[ConcTrial(t)].segments, threads.v[t])
       IN /\ segs' = r.heap
          /\ threads' = [threads EXCEPT
                           !.phase[t] = IF r.raised THEN "raised" ELSE "set"]
    /\ UNCHANGED <<ivs, pc, cur, loopSeg, initial_TimeNode, brakingNode, status,
                   runs, master, runInput, firstRun, cand, sss, opt, bench, fd, vec, snap>>

(* line 42: trial.simulate_interval() starts *)
ConcSimulate ==
    /\ threads.phase[threads.running] = "set"
    /\ StartOn(ivs, segs, ConcTrial(threads.running))
    /\ threads' = [threads EXCEPT !.phase[threads.running] = "simulating"]
    /\ UNCHANGED <<segs, brakingNode, master, firstRun, cand, sss, opt, bench, fd, vec, snap>>

(* line 43: return trial.time_nodes[-1].time *)
ConcReturn ==
    /\ threads.phase[threads.running] = "simulating"
    /\ EvaluationReturned
    /\ threads' = [threads EXCEPT
                     !.phase[threads.running] = "returned",
                     !.time[threads.running] =
                         Last(ivs[ConcTrial(threads.running)].time_nodes).time]
    /\ UNCHANGED <<simVars, cand, sss, opt, bench, fd, vec, snap>>

(* the scheduler takes the running thread off and puts the other one on;   *)
(* overlapped records that both were inside simulate_interval at that time *)
Switch ==
    /\ LET o == 3 - threads.running
       IN /\ threads.phase[o] \notin {"returned", "raised"}
          /\ threads' = [threads EXCEPT
                           !.running = o,
                           !.parked = [pc |-> pc, cur |-> cur, loopSeg |-> loopSeg,
                                       initial_TimeNode |-> initial_TimeNode,
                                       brakingNode |-> brakingNode,
                                       status |-> status, runInput |-> runInput],
                           !.overlapped = @ \/ (threads.phase[1] = "simulating"
                                                /\ threads.phase[2] = "simulating")]
    /\ pc' = threads.parked.pc
    /\ cur' = threads.parked.cur
    /\ loopSeg' = threads.parked.loopSeg
    /\ initial_TimeNode' = threads.parked.initial_TimeNode
    /\ brakingNode' = threads.parked.brakingNode
    /\ status' = threads.parked.status
    /\ runInput' = threads.parked.runInput
    /\ UNCHANGED <<segs, ivs, runs, master, firstRun, cand, sss, opt, bench, fd, vec, snap>>

(* once both threads have returned, the same candidates evaluated one      *)
(* after the other: the call of thread t's candidate, and its return       *)
AlonePending ==
    /\ cand # <<>>
    /\ EvaluationReturned
    /\ \E u \in {1, 2} : threads.alone[u] = -1 /\ threads.v[u] = cand.v

ConcAlone(t) ==
    /\ threads.phase = <<"returned", "returned">>
    /\ threads.alone[t] = -1
    /\ ~AlonePending
    /\ EvaluateOn(threads.v[t])
    /\ UNCHANGED opt

ConcAloneReturn ==
    /\ threads.phase = <<"returned", "returned">>
    /\ AlonePending
    /\ threads' = [threads EXCEPT
                     !.alone = [u \in {1, 2} |->
                                  IF @[u] = -1 /\ threads.v[u] = cand.v
                                  THEN ReturnedTime ELSE @[u]]]
    /\ UNCHANGED <<simVars, cand, sss, opt, bench, fd, vec, snap>>

\* the candidates the two threads evaluate
ConcCandidates == { [k \in 1 .. n |-> x] : n \in 1 .. (MaxSegs + 1), x \in {36, 72} }

InitConc == InitWith(ConcSegChoices)

NextConc ==
    \/ \E v \in ConcCandidates : ConcDeepCopy(v)
    \/ ConcSetVEff
    \/ ConcSimulate
    \/ ConcReturn
    \/ Switch
    \/ \E t \in {1, 2} : ConcAlone(t)
    \/ ConcAloneReturn
    \/ BrakingStep
    \/ BrakingNextSegment
    \/ PadLastSegment
    \/ ForwardStep
    \/ ForwardNextSegment
    \/ SimulateReturn

SpecConc == InitConc /\ [][NextConc]_vars

-----------------------------------------------------------------------------
(* benchmark.benchmark_interval: the selected solvers run one after the    *)
(* other on the same interval, in the order of lines 54-98                 *)

BenchOrder == <<"de", "slsqp", "ga", "dp">>

(* the first position of BenchOrder from i on whose method is selected,    *)
(* Len(BenchOrder) + 1 when there is none                                  *)
BenchNext(methods, i) ==
    LET rest == {j \in i .. Len(BenchOrder) : BenchOrder[j] \in methods}
    IN IF rest = {} THEN Len(BenchOrder) + 1
       ELSE CHOOSE j \in rest : \A l \in rest : j <= l

(* lines 26-53: the call, with the methods given; results = {} *)
BenchStart(methods) ==
    /\ bench.pc = "idle"
    /\ pc = "idle"
    /\ opt.pc = "idle"
    /\ bench' = [pc |-> "running", methods |-> methods,
                 at |-> BenchNext(methods, 1), results |-> <<>>]
    /\ UNCHANGED <<simVars, cand, sss, opt, threads, fd, vec, snap>>

(* the `if "m" in methods` whose solver is the next to be called *)
BenchTurn(m) ==
    /\ bench.pc = "running"
    /\ bench.at <= Len(BenchOrder)
    /\ BenchOrder[bench.at] = m

(* lines 73, 80, 98: results[m] = optimize_m(...) once the solver has      *)
(* returned; after the last selected method, line 113: return results      *)
BenchCollect ==
    /\ bench.pc = "running"
    /\ opt.pc = "returned"
    /\ LET at == BenchNext(bench.methods, bench.at + 1)
       IN bench' = [bench EXCEPT
                      !.results = Append(@, <<BenchOrder[bench.at], opt.result>>),
                      !.at = at,
                      !.pc = IF at > Len(BenchOrder) THEN "returned" ELSE "running"]
    /\ opt' = NoOpt
    /\ UNCHANGED <<simVars, cand, sss, threads, fd, vec, snap>>

(* an exception raised inside the solver: no statement of lines 26-113 is  *)
(* inside a try, so it leaves benchmark_interval                           *)
BenchRaise ==
    /\ bench.pc = "running"
    /\ opt.pc \notin {"idle", "returned"}
    /\ pc = "idle"
    /\ status = "TypeError"
    /\ bench' = [bench EXCEPT !.pc = "raised"]
    /\ UNCHANGED <<simVars, cand, sss, opt, threads, fd, vec, snap>>

\* the interval benchmarked: flat 12 m segments
InitBench == InitWith({ Segment(12000, <<0, 10000>>, 72, 108) })

(* the caller may have simulated the interval before benchmarking it; the  *)
(* methods argument is one of three selections                             *)
NextBench ==
    \/ bench.pc = "idle" /\ SimulateStart(1)
    \/ \E methods \in {{"de", "dp"}, {"slsqp"}, {"slsqp", "dp"}} :
            BenchStart(methods)
    \/ BenchTurn("de") /\ DEStart(v_min, v_max)
    \/ DEValidate
    \/ DEReturn
    \/ BenchTurn("slsqp") /\ SLSQPRestart(v_min, v_max)
    \/ SLSQPRestartValidate
    \/ SLSQPRestartDone
    \/ SLSQPReturn
    \/ BenchTurn("dp") /\ DPStart(v_min, v_max, 20, 20)
    \/ DPBackward
    \/ DPForward
    \/ DPValidate
    \/ DPReturn
    \/ BenchCollect
    \/ BenchRaise
    \/ BrakingStep
    \/ BrakingNextSegment
    \/ PadLastSegment
    \/ ForwardStep
    \/ ForwardNextSegment
    \/ SimulateReturn

SpecBench == InitBench /\ [][NextBench]_vars

-----------------------------------------------------------------------------
(* StateNode.Fd_calc on float values, with kinematics.Vec, Speed and       *)
(* Velocity.  Speeds are in m/s, forces in N.  The segment heads east:     *)
(* displacement.unit_vector() is (1, 0), and the wind blows along it.      *)

\* the largest finite float (sys.float_info.max), scaled down
FloatMax == 1000000

(* a - b and a + b: an overflow gives inf, inf - inf gives nan *)
FloatAdd(a, b) ==
    IF a.cls = "nan" \/ b.cls = "nan" THEN NaN
    ELSE IF a.cls = "inf" /\ b.cls = "inf"
         THEN (IF a.val = b.val THEN a ELSE NaN)
    ELSE IF a.cls = "inf" THEN a
    ELSE IF b.cls = "inf" THEN b
    ELSE IF a.val + b.val > FloatMax THEN PosInf
    ELSE IF a.val + b.val < -FloatMax THEN [PosInf EXCEPT !.val = -1]
    ELSE Finite(a.val + b.val)

FloatSub(a, b) == FloatAdd(a, [b EXCEPT !.val = -@])

(* a * k for a component k of a unit vector, 0 or 1: inf * 0 is nan *)
FloatMul(a, k) ==
    IF a.cls = "nan" THEN NaN
    ELSE IF a.cls = "inf" THEN (IF k = 0 THEN NaN ELSE a)
    ELSE Finite(a.val * k)

(* a ** 2: raises OverflowError when the square of a finite float is not   *)
(* finite; inf ** 2 is inf and nan ** 2 is nan                             *)
FloatPow2(a) ==
    IF a.cls = "nan" THEN [raised |-> FALSE, val |-> NaN]
    ELSE IF a.cls = "inf" THEN [raised |-> FALSE, val |-> PosInf]
    ELSE IF a.val * a.val > FloatMax THEN [raised |-> TRUE, val |-> NaN]
    ELSE [raised |-> FALSE, val |-> Finite(a.val * a.val)]

(* math.sqrt, rounded to the nearest value *)
FloatSqrt(a) ==
    IF a.cls # "finite" THEN a
    ELSE LET r == Isqrt(a.val)
         IN Finite(IF a.val - r * r > r THEN r + 1 ELSE r)

(* Vec.__init__(x, y), kinematics.py lines 6-10:                           *)
(* _mag = math.sqrt(self.x ** 2 + self.y ** 2)                             *)
Vec(x, y) ==
    LET px == FloatPow2(x)
        py == FloatPow2(y)
    IN [raised |-> px.raised \/ py.raised, x |-> x, y |-> y,
        mag |-> FloatSqrt(FloatAdd(px.val, py.val))]

(* Velocity(unit_vec, speed), kinematics.py lines 173-177:                 *)
(* vec = unit_vec * self.mps; Vec.__init__(self, vec.x, vec.y); the        *)
(* product is itself a Vec                                                 *)
VelocityVec(ux, uy, mps) == Vec(FloatMul(mps, ux), FloatMul(mps, uy))

(* (velocity - self.segment.wind).mag ** 2: Vec.__sub__ builds a Vec *)
RelativeSquare(velocity, wind) ==
    LET rel == Vec(FloatSub(velocity.x, wind), velocity.y)
        sq == FloatPow2(rel.mag)
    IN [raised |-> rel.raised \/ sq.raised, val |-> sq.val]

(* line 59: velocity = Velocity(unit_vector, initial_speed), outside the   *)
(* try statement                                                           *)
FdVelocity ==
    /\ fd.pc = "line59"
    /\ LET velocity == VelocityVec(1, 0, fd.speed)
       IN fd' = IF velocity.raised
                THEN [fd EXCEPT !.pc = "OverflowError"]
                ELSE [fd EXCEPT !.pc = "try",
                                !.velocity = [x |-> velocity.x, y |-> velocity.y,
                                              mag |-> velocity.mag]]
    /\ UNCHANGED <<simVars, cand, sss, opt, threads, bench, vec, snap>>

(* lines 60-65: the try block and its except clause: on OverflowError the  *)
(* two prints and velocity = Velocity(velocity.unit_vector(), Speed(200))  *)
FdTry ==
    /\ fd.pc = "try"
    /\ LET sq == RelativeSquare(fd.velocity, fd.wind)
           zero == fd.velocity.mag = Finite(0)
           clamped == VelocityVec(IF zero THEN 0 ELSE 1, IF zero THEN 1 ELSE 0,
                                  Finite(200))
       IN fd' = IF sq.raised
                THEN [fd EXCEPT !.pc = "finally", !.logged = TRUE,
                                !.velocity = [x |-> clamped.x, y |-> clamped.y,
                                              mag |-> clamped.mag]]
                ELSE [fd EXCEPT !.pc = "finally"]
    /\ UNCHANGED <<simVars, cand, sss, opt, threads, bench, vec, snap>>

(* line 67, the finally block:                                             *)
(* Fd = 0.5 * air_density * coef_drag * cross_section * (...).mag ** 2     *)
FdFinally ==
    /\ fd.pc = "finally"
    /\ LET sq == RelativeSquare(fd.velocity, fd.wind)
           half_rho_cd_a == (air_density * coef_drag * cross_section) \div 2000
       IN fd' = IF sq.raised THEN [fd EXCEPT !.pc = "OverflowError"]
                ELSE [fd EXCEPT
                        !.pc = "returned",
                        !.Fd = IF sq.val.cls = "finite"
                               THEN Finite((sq.val.val * half_rho_cd_a) \div 1000)
                               ELSE sq.val]
    /\ UNCHANGED <<simVars, cand, sss, opt, threads, bench, vec, snap>>

\* initial_speed: ordinary speeds, the ceiling, the largest speed whose
\* square is finite, larger ones, inf and nan; a head wind in the last two
SpeedInputs ==
    { Finite(n) : n \in {0, 1, 30, 100, 200, 500, 999, 1000, 1001, 5000, 40000} }
        \cup {PosInf, NaN}
WindInputs == {0, -5, -900}

InitFd ==
    /\ InitWith({ Segment(12000, <<0, 10000>>, 72, 108) })
    /\ Len(ivs[1].segments) = 1

(* the call Fd_calc(initial_speed) on a node of a segment with the wind w  *)
FdCall(speed, w) ==
    /\ fd.pc = "idle"
    /\ fd' = [NoFd EXCEPT !.pc = "line59", !.speed = speed, !.wind = Finite(w)]
    /\ UNCHANGED <<simVars, cand, sss, opt, threads, bench, vec, snap>>

NextFd ==
    \/ \E speed \in SpeedInputs, w \in WindInputs : FdCall(speed, w)
    \/ FdVelocity
    \/ FdTry
    \/ FdFinally

SpecFd == InitFd /\ [][NextFd]_vars

-----------------------------------------------------------------------------
(* kinematics.Vec: __init__ and unit_vector.  The components of the vector *)
(* are floats with whole values; those of the unit vector are in 1/1000.   *)

\* 1.0 in the scale of the unit vector's components
One == 1000

(* c / mag for a component c and a magnitude mag # 0, rounded to the       *)
(* nearest 1/1000: finite / inf is 0, inf / inf is nan                     *)
FloatDiv(c, mag) ==
    IF c.cls = "nan" \/ mag.cls = "nan" THEN NaN
    ELSE IF c.cls = "inf" THEN (IF mag.cls = "inf" THEN NaN ELSE c)
    ELSE IF mag.cls = "inf" THEN Finite(0)
    ELSE LET q == (2 * Abs(c.val) * One + mag.val) \div (2 * mag.val)
         IN Finite(IF c.val < 0 THEN -q ELSE q)

(* Vec.__init__ on components in 1/1000: the magnitude in 1/1000 *)
ScaledMag(x, y) ==
    IF x.cls = "nan" \/ y.cls = "nan" THEN NaN
    ELSE IF x.cls = "inf" \/ y.cls = "inf" THEN PosInf
    ELSE FloatSqrt(Finite(x.val * x.val + y.val * y.val))

(* Vec(x, y, z), kinematics.py lines 6-10 *)
VecNew(x, y, z) ==
    /\ vec.pc = "idle"
    /\ LET v == Vec(x, y)
       IN vec' = IF v.raised THEN [NoVec EXCEPT !.pc = "OverflowError",
                                                !.x = x, !.y = y, !.z = z]
                 ELSE [NoVec EXCEPT !.pc = "built", !.x = x, !.y = y, !.z = z,
                                    !.mag = v.mag]
    /\ UNCHANGED <<simVars, cand, sss, opt, threads, bench, fd, snap>>

(* unit_vector, kinematics.py lines 45-49 *)
unit_vector ==
    /\ vec.pc = "built"
    /\ LET ux == FloatDiv(vec.x, vec.mag)
           uy == FloatDiv(vec.y, vec.mag)
           uz == FloatDiv(vec.z, vec.mag)
       IN vec' = [vec EXCEPT
                    !.pc = "returned",
                    !.u = IF vec.mag = Finite(0)
                          THEN [x |-> Finite(0), y |-> Finite(One),
                                z |-> Finite(0), mag |-> Finite(One)]
                          ELSE [x |-> ux, y |-> uy, z |-> uz,
                                mag |-> ScaledMag(ux, uy)]]
    /\ UNCHANGED <<simVars, cand, sss, opt, threads, bench, fd, snap>>

\* components: zero, ordinary ones, ones whose squares are finite while
\* their sum is not, one whose square is not finite, inf and nan
ComponentInputs ==
    { Finite(n) : n \in {0, 300, -400, 600, 800, 1000, 1001} } \cup {PosInf, NaN}

InitVec ==
    /\ InitWith({ Segment(12000, <<0, 10000>>, 72, 108) })
    /\ Len(ivs[1].segments) = 1

NextVec ==
    \/ \E x \in ComponentInputs, y \in ComponentInputs, z \in {Finite(0), Finite(5)} :
            VecNew(x, y, z)
    \/ unit_vector

SpecVec == InitVec /\ [][NextVec]_vars

-----------------------------------------------------------------------------
(* simulate_braking as a walk: the loop of lines 112-131 with the list of  *)
(* appended nodes left out.  The tests of the loop read only the last node *)
(* (its dist and speed), so the walk takes the same exits as the loop; a   *)
(* node's time is not read and is kept modulo two nominal steps, and a    *)
(* dist at or beyond WalkDistCap, which is beyond every segment's start,   *)
(* is kept at WalkDistCap.                                                  *)

WalkDistCap == 40000          \* mm, beyond the total_dist of every interval

(* one iteration of the while loop (lines 113-130) *)
BrakingWalkStep ==
    /\ pc = "braking"
    /\ loopSeg >= 1
    /\ LET iv == ivs[cur]
           sid == iv.segments[loopSeg]
           segment == segs[sid]
       IN /\ initial_TimeNode.dist >= segment.tdist - segment.dist
          /\ IF initial_TimeNode.speed <= segment.speed_limit.mps
             THEN /\ LET fresh == TimeNode(sid, initial_TimeNode.time - TIME_STEP,
                                           0, 0, 0, BRAKE)
                         current_TimeNode ==
                             AdaptiveStep(fresh, initial_TimeNode, -TIME_STEP)
                     IN initial_TimeNode' =
                            [current_TimeNode EXCEPT
                                !.time = @ % (2 * TIME_STEP),
                                !.dist = Min(@, WalkDistCap)]
                  /\ UNCHANGED <<pc, loopSeg>>
             ELSE \* return
                  /\ pc' = "pad"
                  /\ UNCHANGED <<initial_TimeNode, loopSeg>>
    /\ UNCHANGED <<segs, ivs, cur, brakingNode, status, runs, master, runInput,
                   firstRun, optVars>>

\* the route's segments and one shorter than the braking distance from its
\* speed limit, so that the walk also leaves a segment at its start
WalkSegChoices == SegChoices \cup {Segment(500, <<0, 10000>>, 72, 108)}

InitWalk == InitWith(WalkSegChoices)

NextWalk ==
    \/ \E i \in IvIds : SimulateStart(i)
    \/ BrakingWalkStep
    \/ BrakingNextSegment

(* the statements of simulate_braking run one after the other: an enabled  *)
(* iteration or loop exit is taken                                         *)
SpecWalk ==
    /\ InitWalk
    /\ [][NextWalk]_vars
    /\ WF_vars(BrakingWalkStep)
    /\ WF_vars(BrakingNextSegment)

-----------------------------------------------------------------------------
(* optimize_dp: one exit speed snapped to the state grid by the table's    *)
(* code (lines 143-154, taken for one element of es_table) and by the      *)
(* forward replay's _snap_to_grid (line 218)                               *)

\* the state grids of <<v_max, speed_resolution>> = <<10.8, 3.6>>,
\* <<10.8, 7.2>> and <<7.2, 3.6>> km/h
SnapGrids == {speed_grid(108, 36), speed_grid(108, 72), speed_grid(72, 36)}
\* exit speeds in mm/s: grid points, midpoints, values between them, values
\* below the first and above the last grid point
SnapValues == { 250 * n : n \in -2 .. 22 }

(* an entry of es_table *)
SnapEntry(grid, value) ==
    /\ snap.pc = "idle"
    /\ snap' = [NoSnap EXCEPT !.pc = "entry", !.grid = grid, !.value = value]
    /\ UNCHANGED <<simVars, cand, sss, opt, threads, bench, fd, vec>>

(* its index in exit_idx_tables and the s_idx the replay continues from *)
SnapBoth ==
    /\ snap.pc = "entry"
    /\ snap' = [snap EXCEPT !.pc = "snapped",
                            !.table = exit_idx(snap.grid, snap.value),
                            !.replay = snap_to_grid(snap.value, snap.grid)]
    /\ UNCHANGED <<simVars, cand, sss, opt, threads, bench, fd, vec>>

InitSnap ==
    /\ InitWith({Segment(12000, <<0, 10000>>, 72, 108)})
    /\ Len(ivs[1].segments) = 1

NextSnap ==
    \/ \E grid \in SnapGrids, value \in SnapValues : SnapEntry(grid, value)
    \/ SnapBoth

SpecSnap == InitSnap /\ [][NextSnap]_vars

-----------------------------------------------------------------------------
(* the route: simulate_interval and join_intervals *)

Next ==
    \/ \E i \in IvIds : SimulateStart(i)
    \/ \E list \in JoinLists : JoinIntervals(list)
    \/ BrakingStep
    \/ BrakingNextSegment
    \/ PadLastSegment
    \/ ForwardStep
    \/ ForwardNextSegment
    \/ SimulateReturn

Spec == Init /\ [][Next]_vars

-----------------------------------------------------------------------------
(* Properties of the interval simulator *)

(* the intervals whose simulate_interval has returned *)
Simulated(i) == pc = "idle" /\ ivs[i].has_time_nodes

MonotoneIn(nodes, field) ==
    \A k \in 1 .. (Len(nodes) - 1) : nodes[k][field] <= nodes[k + 1][field]

(* C1: after simulate_interval returns, every node of time_nodes at or    *)
(* beyond total_dist has speed <= the stop speed, and so has the last node *)
C1_StoppedByEnd ==
    \A i \in IvIds :
        Simulated(i) =>
            /\ \A k \in 1 .. Len(ivs[i].time_nodes) :
                   ivs[i].time_nodes[k].dist >= ivs[i].total_dist
                       => ivs[i].time_nodes[k].speed <= stopSpeed
            /\ Last(ivs[i].time_nodes).speed <= stopSpeed

(* C2: in the time_nodes produced by simulate_interval, dist is           *)
(* non-decreasing from every node to the next                              *)
C2_DistNonDecreasing ==
    \A i \in IvIds : Simulated(i) => MonotoneIn(ivs[i].time_nodes, "dist")

TdistInvariant(iv) ==
    /\ \A k \in 1 .. Len(iv.segments) :
           segs[iv.segments[k]].tdist = CumDist(segs, iv.segments, k)
    /\ iv.segments # <<>> => iv.total_dist = segs[Last(iv.segments)].tdist

C5_TdistCumulative ==
    pc = "idle" => /\ \A i \in IvIds : TdistInvariant(ivs[i])
                   /\ TdistInvariant(master)

-----------------------------------------------------------------------------
(* Properties of candidate evaluation *)

SameTargets(heap1, ids1, heap2, ids2) ==
    \A k \in 1 .. Len(ids1) :
        /\ heap1[ids1[k]].v_eff = heap2[ids2[k]].v_eff
        /\ heap1[ids1[k]].t_eff = heap2[ids2[k]].t_eff

(* C9: a set_v_eff call that raises ValueError was given a vector whose   *)
(* length differs from the number of segments, leaves v_eff and t_eff of  *)
(* every segment as they were (for the deep copy of an evaluation: as in  *)
(* the interval copied) and starts no simulation                           *)
C9_LengthRejected ==
    [][status' = "ValueError" =>
         /\ cand'.fn = "set_v_eff" =>
                /\ Len(cand'.v) # Len(ivs[1].segments)
                /\ segs' = segs
                /\ ivs' = ivs
         /\ cand'.fn = "set_v_eff_route" =>
                /\ cand'.v[1] = "list"
                /\ Len(cand'.v[2]) # Len(ivs[1].segments) + Len(ivs[2].segments)
                /\ segs' = segs
                /\ ivs' = ivs
         /\ cand'.fn = "simulate_interval_with_v_eff" =>
                /\ Len(cand'.v) # Len(ivs[1].segments)
                /\ SameTargets(segs', ivs'[TrialId].segments, segs, ivs[1].segments)
                /\ \A sid \in 1 .. (MaxSegs + 1) : segs'[sid] = segs[sid]
                /\ \A i \in IvIds : ivs'[i] = ivs[i]
                /\ ~ivs'[TrialId].has_time_nodes
         /\ pc' = "idle"
      ]_vars

(* set_v_eff has raised on a vector one entry too long, whose first       *)
(* entries differ from the targets the segments carry                      *)
C9_Witness ==
    /\ status = "ValueError"
    /\ cand.fn = "set_v_eff"
    /\ Len(cand.v) = Len(ivs[1].segments) + 1
    /\ \A k \in 1 .. Len(ivs[1].segments) :
           Min(cand.v[k], segs[ivs[1].segments[k]].speed_limit.kmph)
               # segs[ivs[1].segments[k]].v_eff.kmph

(* the optimizer's bounds of segment k: [v_min, min(v_max, speed_limit)] *)
InBounds(v, seg) ==
    /\ v >= v_min
    /\ v <= v_max
    /\ seg.speed_limit.mps > 0 => v <= seg.speed_limit.kmph

Stalls(seg) == Fm_calc(MAX_TORQUE) < Fg_calc(seg) + Frr_calc(seg)

(* C6: simulate_interval on an interval whose first segment stalls the    *)
(* car does not return normally                                            *)
C6_StallSurfaced ==
    (pc = "idle" /\ status = "returned")
        => ~Stalls(segs[ivs[cur].segments[1]])

DPSkipped(k, s) ==
    LET seg == segs[ivs[1].segments[k]]
        remaining_from_here == (ivs[1].total_dist - seg.tdist) + seg.dist
        s_mps == opt.speed_grid_mps[s]
    IN 2 * ((s_mps * s_mps) \div (2 * a_brake)) > 3 * remaining_from_here

(* optimize_dp lines 182-183: total_costs of state (k, s) *)
DPTotalCosts(k, s) ==
    [a \in 1 .. Len(opt.per_seg_actions[k]) |->
        AddCost(opt.transition_tables[k][s][a][2],
                opt.V[k + 1][opt.exit_idx_tables[k][s][a] + 1])]

(* the summed table times plus the terminal cost (line 162) of the action  *)
(* sequence acts from state (k, s) on; with pruned, a sequence that enters *)
(* a state the sweep skips costs inf                                       *)
RECURSIVE SequenceCost(_, _, _, _)
SequenceCost(acts, k, s, pruned) ==
    IF k = Len(opt.per_seg_actions) + 1 THEN opt.V[k][s]
    ELSE IF pruned /\ DPSkipped(k, s) THEN Inf
    ELSE AddCost(opt.transition_tables[k][s][acts[k]][2],
                 SequenceCost(acts, k + 1,
                              opt.exit_idx_tables[k][s][acts[k]] + 1, pruned))

(* the least cost over all action sequences, one action index per segment *)
BestSequence(pruned) ==
    LET all == Vectors([k \in 1 .. Len(opt.per_seg_actions) |->
                           1 .. Len(opt.per_seg_actions[k])])
        best == CHOOSE acts \in all :
                   \A other \in all : SequenceCost(acts, 1, 1, pruned)
                                      <= SequenceCost(other, 1, 1, pruned)
    IN SequenceCost(best, 1, 1, pruned)

(* the backward sweep of optimize_dp is over (lines 171-194) *)
DPSwept ==
    /\ opt.method = "dynamic_programming"
    /\ opt.pc \in {"dp_forward", "validate", "validating", "returned"}

C17_JoinedMaster ==
    [][ \A list \in JoinLists :
          (/\ JoinIntervals(list)
           /\ \A i \in 1 .. Len(list) : ivs[list[i]].has_time_nodes
                                        /\ ivs[list[i]].time_nodes # <<>>)
          => LET I0 == ivs[list[1]]
                 end0 == Last(I0.time_nodes)
                 rest == IF Len(list) = 1 THEN <<>>
                         ELSE ShiftNodes(ivs[list[2]].time_nodes,
                                         end0.time, end0.dist)
                 ids == IF Len(list) = 1 THEN I0.segments
                        ELSE I0.segments \o ivs[list[2]].segments
                 final == IF Len(list) = 1 THEN end0.time
                          ELSE end0.time + Last(ivs[list[2]].time_nodes).time
             IN /\ status' = "joined"
                /\ master'.time_nodes = I0.time_nodes \o rest
                /\ Last(master'.time_nodes).time = final
                /\ master'.segments = ids
                /\ \A k \in 1 .. Len(ids) :
                      segs'[ids[k]].tdist = SetTdists(segs, ids)[ids[k]].tdist ]_vars

(* C18: a failure inside one selected solver does not abort                *)
(* benchmark_interval: the call never ends by the solver's exception, and  *)
(* when it returns, results holds a time for every selected method         *)
C18_FailureContained ==
    /\ bench.pc # "raised"
    /\ bench.pc = "returned" =>
          \A m \in bench.methods :
             \E i \in 1 .. Len(bench.results) :
                bench.results[i][1] = m /\ bench.results[i][2].total_time > 0

SquareOverflows ==
    /\ fd.pc # "idle"
    /\ fd.speed.cls = "finite"
    /\ \/ fd.speed.val * fd.speed.val > FloatMax
       \/ (fd.speed.val - fd.wind.val) * (fd.speed.val - fd.wind.val) > FloatMax

(* C20: a call of Fd_calc that meets a velocity whose square overflows     *)
(* does not raise; it clamps the velocity to 200 m/s, logs, and returns    *)
(* with a finite drag force                                                *)
C20_OverflowClamped ==
    SquareOverflows =>
        /\ fd.pc # "OverflowError"
        /\ fd.pc = "finally" => fd.logged /\ fd.velocity.mag = Finite(200)
        /\ fd.pc = "returned" => fd.logged /\ fd.Fd.cls = "finite"

(* C21: unit_vector returns the fallback (0, 1) for a vector of zero       *)
(* magnitude and a vector of magnitude 1 (to the rounding of 1/1000) for   *)
(* every other vector                                                      *)
C21_UnitMagnitude ==
    vec.pc = "returned" =>
        /\ vec.mag = Finite(0) => (vec.u.x = Finite(0) /\ vec.u.y = Finite(One))
        /\ vec.u.mag.cls = "finite"
        /\ Abs(vec.u.mag.val - One) <= 1

(* a step of the forward pass has appended a node to time_nodes *)
ForwardAppended ==
    /\ pc = "forward"
    /\ pc' = "forward"
    /\ cur' = cur
    /\ Len(ivs'[cur].time_nodes) = Len(ivs[cur].time_nodes) + 1

(***************************************************************************)
(* C22: every forward step of simulate_interval applies one control mode,  *)
(* in this priority: braking (Fb = BRAKE, torque = 0) when the distance    *)
(* has reached the indexed point of the braking envelope; otherwise        *)
(* MAX_TORQUE with Fb = 0 when the speed is below the segment's v_eff;     *)
(* otherwise the segment's t_eff with Fb = 0.  No node of the forward pass *)
(* has both a braking force and a drive torque.                            *)
(***************************************************************************)
C22_OneControlMode ==
    [][ForwardAppended =>
         LET n == Last(ivs'[cur].time_nodes)
             init == initial_TimeNode
             segment == segs[ivs[cur].segments[loopSeg]]
             point == ivs[cur].brakingNodes[brakingNode]
         IN /\ init.dist >= point.dist => (n.Fb = BRAKE /\ n.torque = 0)
            /\ (init.dist < point.dist /\ init.speed < segment.v_eff.mps)
                  => (n.torque = MAX_TORQUE /\ n.Fb = 0)
            /\ (init.dist < point.dist /\ init.speed >= segment.v_eff.mps)
                  => (n.torque = segment.t_eff /\ n.Fb = 0)
            /\ \A k \in 1 .. Len(ivs'[cur].time_nodes) :
                  ~(ivs'[cur].time_nodes[k].Fb # 0
                    /\ ivs'[cur].time_nodes[k].torque # 0)]_vars

(* a run whose forward pass has used all three modes, the braking one at a *)
(* speed below the segment's v_eff                                         *)
C22_Witness ==
    /\ pc = "forward"
    /\ LET nodes == ivs[cur].time_nodes
       IN /\ \E k \in 2 .. Len(nodes) : nodes[k].torque = MAX_TORQUE
          /\ \E k \in 2 .. Len(nodes) :
                /\ nodes[k].Fb = 0
                /\ nodes[k].torque = segs[nodes[k].seg].t_eff
                /\ nodes[k].torque # MAX_TORQUE
          /\ \E k \in 2 .. Len(nodes) :
                /\ nodes[k].Fb = BRAKE
                /\ nodes[k - 1].speed < segs[nodes[k].seg].v_eff.mps

(* a step of the braking pass has appended a node to brakingNodes *)
BrakingAppended ==
    /\ pc = "braking"
    /\ cur' = cur
    /\ Len(ivs'[cur].brakingNodes) = Len(ivs[cur].brakingNodes) + 1

(* the node n follows init by a step whose speed change is capped: the    *)
(* nominal step when acc * TIME_STEP is within VELOCITY_STEP, otherwise a *)
(* step of dt = VELOCITY_STEP / |acc| (whole milliseconds, so the change  *)
(* falls short of VELOCITY_STEP by less than |acc| * 1 ms, rounded up)    *)
CappedStep(init, n, sign) ==
    /\ Abs(n.speed - init.speed) <= VELOCITY_STEP
    /\ IF Abs(n.acc * TIME_STEP) > VELOCITY_STEP * 1000
       THEN /\ n.time - init.time = sign * ((VELOCITY_STEP * 1000) \div Abs(n.acc))
            /\ Abs(n.time - init.time) < TIME_STEP
            /\ VELOCITY_STEP - Abs(n.speed - init.speed) <= Abs(n.acc) \div 1000 + 1
       ELSE n.time - init.time = sign * TIME_STEP

(***************************************************************************)
(* C23: in both passes of simulate_interval the speed change from a node   *)
(* to the next never exceeds VELOCITY_STEP; when acc * TIME_STEP would     *)
(* exceed it the node is re-solved with the shortened dt, its speed change *)
(* is VELOCITY_STEP and its time advances by the shortened dt.             *)
(***************************************************************************)
C23_SpeedChangeCapped ==
    [][/\ ForwardAppended =>
             CappedStep(initial_TimeNode, Last(ivs'[cur].time_nodes), 1)
       /\ BrakingAppended =>
             CappedStep(initial_TimeNode, Last(ivs'[cur].brakingNodes), -1)]_vars

(* a returned run with a shortened and a nominal step in the forward pass *)
(* and a shortened step in the braking pass                                *)
C23_Witness ==
    /\ status = "returned"
    /\ pc = "idle"
    /\ cur # 0
    /\ LET nodes == ivs[cur].time_nodes
           bnodes == ivs[cur].brakingNodes
       IN /\ \E k \in 2 .. Len(nodes) :
                /\ nodes[k].time - nodes[k - 1].time < TIME_STEP
                /\ Abs(nodes[k].speed - nodes[k - 1].speed) >= VELOCITY_STEP - 1
          /\ \E k \in 2 .. Len(nodes) :
                nodes[k].time - nodes[k - 1].time = TIME_STEP
          /\ \E k \in 2 .. Len(bnodes) :
                /\ bnodes[k - 1].time - bnodes[k].time < TIME_STEP
                /\ bnodes[k].speed - bnodes[k - 1].speed >= VELOCITY_STEP - 1

(***************************************************************************)
(* C24: the forward pass of simulate_interval stops as soon as a step      *)
(* leaves the speed at or below the stop speed: no node is appended to     *)
(* time_nodes after a node, other than the initial one, whose speed is at  *)
(* or below stopSpeed, in whichever segment that node was produced.        *)
(***************************************************************************)
C24_StopsAtStopSpeed ==
    [][ForwardAppended =>
         \A k \in 2 .. Len(ivs[cur].time_nodes) :
             ivs[cur].time_nodes[k].speed > stopSpeed]_vars

(***************************************************************************)
(* C25: the backward braking pass extends the envelope within a segment    *)
(* only while the envelope speed is not above that segment's cruise target *)
(* v_eff: no node is appended to brakingNodes from a node whose speed      *)
(* exceeds the v_eff of the segment being walked.                          *)
(***************************************************************************)
C25_EnvelopeBelowTarget ==
    [][BrakingAppended =>
         initial_TimeNode.speed
            <= segs[ivs[cur].segments[loopSeg]].v_eff.mps]_vars

(***************************************************************************)
(* C26: join_intervals does not modify its inputs: when it returns, every  *)
(* input interval has the time_nodes, brakingNodes and segments list it    *)
(* had before the call, and each of its segments has the same tdist.       *)
(***************************************************************************)
C26_JoinKeepsInputs ==
    [][ \A list \in JoinLists :
          (JoinIntervals(list) /\ status' = "joined")
          => \A i \in 1 .. Len(list) :
                /\ ivs'[list[i]] = ivs[list[i]]
                /\ \A k \in 1 .. Len(ivs[list[i]].segments) :
                      segs'[ivs[list[i]].segments[k]].tdist
                         = segs[ivs[list[i]].segments[k]].tdist ]_vars

(* the segments of a snapshot as simulate_interval leaves them: the last  *)
(* one's tdist padded (line 68)                                            *)
PaddedInput(input) ==
    <<input[1], [k \in 1 .. Len(input[2]) |->
                    IF k = Len(input[2])
                    THEN [input[2][k] EXCEPT !.tdist = @ + PAD]
                    ELSE input[2][k]]>>

(* the second call of simulate_interval on the object of the first call,  *)
(* taken as the first call left it, has returned                          *)
SecondCallReturned ==
    /\ pc = "idle"
    /\ status = "returned"
    /\ runs = 2
    /\ firstRun.valid
    /\ runInput = PaddedInput(firstRun.input)

(***************************************************************************)
(* C27: a second call of simulate_interval on the same object, with the    *)
(* same v_eff and t_eff, produces the time_nodes and brakingNodes of the   *)
(* first call and leaves every segment's tdist as it was before the first  *)
(* call.                                                                   *)
(***************************************************************************)
C27_SecondCallSame ==
    SecondCallReturned =>
        /\ NodeValues(ivs[cur], ivs[cur].time_nodes) = firstRun.time_nodes
        /\ NodeValues(ivs[cur], ivs[cur].brakingNodes) = firstRun.brakingNodes
        /\ \A k \in 1 .. Len(ivs[cur].segments) :
              segs[ivs[cur].segments[k]].tdist = firstRun.input[2][k].tdist

(***************************************************************************)
(* C28: simulate_interval terminates for every interval, whatever the      *)
(* grades: the backward braking pass, once started, finishes (the call     *)
(* goes on to the forward pass).                                           *)
(***************************************************************************)
C28_BrakingTerminates == (pc = "braking") ~> (pc = "pad")

ReplayAgreesOnTables ==
    (opt.method = "dynamic_programming" /\ opt.exit_idx_tables # <<>>) =>
        \A k \in 1 .. Len(opt.exit_idx_tables) :
        \A s \in 1 .. Len(opt.speed_grid_mps) :
        \A a \in 1 .. Len(opt.per_seg_actions[k]) :
            snap_to_grid(opt.transition_tables[k][s][a][1], opt.speed_grid_mps)
               = opt.exit_idx_tables[k][s][a]

(***************************************************************************)
(* C30: the forward replay of optimize_dp follows the transitions the      *)
(* backward sweep assumed: the index _snap_to_grid gives for an exit speed *)
(* is the one exit_idx_tables holds for it, also for an exit speed midway  *)
(* between two grid points or beyond the ends of the grid.                 *)
(***************************************************************************)
C30_ReplaySameTransitions ==
    snap.pc = "snapped" => snap.replay = snap.table

====
